---- MODULE Spec2Model ----
(***************************************************************************)
(* A model of caesar-transfer (caesar-core): the relay's room registry and *)
(* signalling state machine, the relay's transfer registry, and the        *)
(* sender / receiver transfer protocol.                                    *)
(***************************************************************************)
EXTENDS Integers, Sequences, FiniteSets, TLC

VARIABLES
    rooms,            \* AppState.rooms : room id -> Room {senders, size}
    client_room_id,   \* relay Client.room_id of every connection
    pending,          \* sends the relay task of a connection still awaits (join_all)
    inq,              \* client -> relay stream of every connection
    wire,             \* relay -> client stream of every connection
    conn,             \* connection life cycle: "open", "closed" (client end), "gone"
    handled,          \* the message the relay handled last, and its connection
    ops,              \* messages sent so far by free-running clients, or fed to a receiver
    transfers,        \* AppState.transfers : list of advertisements
    http,             \* last HTTP request and its response
    sctx,             \* sender Context, its chunk task and the life cycle of sender::start
    rctx,             \* receiver Context and the life cycle of receiver::start, per receiver
    disk,             \* the download directory of every receiver: path -> content
    launch,           \* start_receiver of every receiver: its position, what it got and reported
    boot              \* start_sender: its position, the tasks it spawned, the completion channel

relayVars == <<rooms, client_room_id, pending, inq, wire, conn, handled>>
regVars == <<transfers, http>>
peerVars == <<sctx, rctx, disk, launch, boot>>
vars == <<rooms, client_room_id, pending, inq, wire, conn, handled, ops, transfers, http,
          sctx, rctx, disk, launch, boot>>

(***************************************************************************)
(* Bounds of the model                                                     *)
(***************************************************************************)
MaxOps == 3          \* messages the free-running relay clients send in all
MaxInq == 1          \* messages in flight from one client to the relay
MaxTransfers == 3    \* length cap of the advertisement list
MaxAborts == 1       \* receivers that are stopped in the middle of a run
MaxFeed == 6         \* frames a receiver is fed from outside the protocol
MaxSenderFeed == 4   \* frames a sender is fed from outside the protocol
MaxSeq == 2          \* largest sequence number of a fed chunk
MaxRoomOps == 4      \* messages the clients around one room send in all
MaxBacklog == 2      \* messages of one such client the relay has not read yet
MaxPaths == 3        \* paths given to the sender when it is started on any paths
MaxChunks == 8       \* full chunks of the longest file the chunk task is run on alone

Conns == {"c1", "c2", "c3"}
RoomIds == {"r1"}
Uuids == {"u1"}          \* what Uuid::new_v4 may return
NoRoom == "none"         \* Option::None of a room id
NoSize == -1             \* Join { size: None }
BROADCAST == 255         \* u8::MAX

DEFAULT_ROOM_SIZE == 2

(***************************************************************************)
(* Helpers on sequences                                                    *)
(***************************************************************************)
Range(s) == {s[i] : i \in 1..Len(s)}

\* iter().position(..): zero-based index of the first occurrence, -1 for None
Position(s, x) ==
    IF \E i \in 1..Len(s) : s[i] = x
    THEN (CHOOSE i \in 1..Len(s) : s[i] = x /\ \A j \in 1..(i-1) : s[j] # x) - 1
    ELSE -1

\* Vec::remove(index), index zero-based
Remove(s, index) == [i \in 1..(Len(s)-1) |-> IF i <= index THEN s[i] ELSE s[i+1]]

(***************************************************************************)
(* Relay: control packets (relay/mod.rs)                                   *)
(***************************************************************************)
ReqCreate(id) == [type |-> "create", id |-> id]
ReqJoin(id) == [type |-> "join", id |-> id]
ReqLeave == [type |-> "leave"]
Binary(data) == [type |-> "binary", data |-> data]
Junk == [type |-> "junk"]          \* text that does not parse as a RequestPacket
CloseFrame == [type |-> "close"]   \* Message::Close
Eof == [type |-> "eof"]            \* end of the connection's stream

RespCreate(id) == [type |-> "create", id |-> id]
RespJoin(size) == [type |-> "join", size |-> size]
RespLeave(index) == [type |-> "leave", index |-> index]
RespError(message) == [type |-> "error", message |-> message]

Room(size) == [senders |-> <<>>, size |-> size]

\* the membership test both create and join start with

InAnyRoom_first(c) ==
    \E id \in DOMAIN rooms : rooms[id].senders # <<>> /\ rooms[id].senders[1] = c
InAnyRoom(c) == \E id \in DOMAIN rooms : c \in Range(rooms[id].senders)

RoomIsFull_gt(room) == Len(room.senders) > room.size
RoomIsFull(room) == Len(room.senders) >= room.size

Send(to, msg) == [to |-> to, msg |-> msg]

\* a handler that returns without changing the relay
Ignore_error(c) ==
    /\ UNCHANGED <<rooms, client_room_id>>
    /\ pending' = [pending EXCEPT ![c] = {Send(c, RespError("Invalid message."))}]

Ignore(c) ==
    /\ UNCHANGED <<rooms, client_room_id>>
    /\ pending' = [pending EXCEPT ![c] = {}]

ReplyOnly(c, msg) ==
    /\ UNCHANGED <<rooms, client_room_id>>
    /\ pending' = [pending EXCEPT ![c] = {Send(c, msg)}]

handle_create_room_replace(c, id) ==
    IF InAnyRoom(c) THEN Ignore(c)
    ELSE \E rid \in (IF id = NoRoom THEN Uuids ELSE {id}) :
        /\ rooms' = [x \in DOMAIN rooms \cup {rid} |->
                        IF x = rid THEN [Room(DEFAULT_ROOM_SIZE) EXCEPT !.senders = <<c>>]
                        ELSE rooms[x]]
        /\ client_room_id' = [client_room_id EXCEPT ![c] = rid]
        /\ pending' = [pending EXCEPT ![c] = {Send(c, RespCreate(rid))}]

handle_create_room(c, id) ==
    IF InAnyRoom(c) THEN Ignore(c)
    ELSE \E rid \in (IF id = NoRoom THEN Uuids ELSE {id}) :
        IF rid \in DOMAIN rooms
        THEN ReplyOnly(c, RespError("A room with that identifier already exists."))
        ELSE /\ rooms' = rooms @@ (rid :> [Room(DEFAULT_ROOM_SIZE) EXCEPT !.senders = <<c>>])
             /\ client_room_id' = [client_room_id EXCEPT ![c] = rid]
             /\ pending' = [pending EXCEPT ![c] = {Send(c, RespCreate(rid))}]

JoinNotices_self(c, senders) == {Send(c, RespJoin(Len(senders) - 1))}
JoinNotices_sized(c, senders) == {Send(m, RespJoin(Len(senders) - 1)) : m \in Range(senders)}
JoinNotices(c, senders) ==
    {Send(m, IF m = c THEN RespJoin(Len(senders) - 1) ELSE RespJoin(NoSize)) : m \in Range(senders)}

handle_join_room(c, id) ==
    IF InAnyRoom(c) THEN Ignore(c)
    ELSE IF id \notin DOMAIN rooms
    THEN ReplyOnly(c, RespError("The room does not exist."))
    ELSE IF RoomIsFull(rooms[id])
    THEN ReplyOnly(c, RespError("The room is full."))
    ELSE LET senders == Append(rooms[id].senders, c) IN
         /\ rooms' = [rooms EXCEPT ![id].senders = senders]
         /\ client_room_id' = [client_room_id EXCEPT ![c] = id]
         /\ pending' = [pending EXCEPT ![c] = JoinNotices(c, senders)]

handle_leave_room_kept(c) ==
    LET id == client_room_id[c] IN
    IF id = NoRoom THEN Ignore(c)
    ELSE IF id \notin DOMAIN rooms THEN Ignore(c)
    ELSE IF Position(rooms[id].senders, c) = -1 THEN Ignore(c)
    ELSE LET index == Position(rooms[id].senders, c)
             senders == Remove(rooms[id].senders, index)
         IN /\ client_room_id' = [client_room_id EXCEPT ![c] = NoRoom]
            /\ pending' = [pending EXCEPT ![c] =
                              {Send(m, RespLeave(index)) : m \in Range(senders)}]
            /\ rooms' = [rooms EXCEPT ![id].senders = senders]

handle_leave_room(c) ==
    LET id == client_room_id[c] IN
    IF id = NoRoom THEN Ignore(c)
    ELSE IF id \notin DOMAIN rooms THEN Ignore(c)
    ELSE IF Position(rooms[id].senders, c) = -1 THEN Ignore(c)
    ELSE LET index == Position(rooms[id].senders, c)
             senders == Remove(rooms[id].senders, index)
         IN /\ client_room_id' = [client_room_id EXCEPT ![c] = NoRoom]
            /\ pending' = [pending EXCEPT ![c] =
                              {Send(m, RespLeave(index)) : m \in Range(senders)}]
            /\ rooms' = IF senders = <<>>
                        THEN [r \in DOMAIN rooms \ {id} |-> rooms[r]]
                        ELSE [rooms EXCEPT ![id].senders = senders]

handle_binary_echo(c, data) ==
    LET id == client_room_id[c] IN
    IF id = NoRoom THEN Ignore(c)
    ELSE IF id \notin DOMAIN rooms THEN Ignore(c)
    ELSE IF Position(rooms[id].senders, c) = -1 THEN Ignore(c)
    ELSE IF data = <<>> THEN Ignore(c)
    ELSE LET senders == rooms[id].senders
             destination == data[1]
             out == Binary(data)
         IN /\ UNCHANGED <<rooms, client_room_id>>
            /\ pending' = [pending EXCEPT ![c] =
                  IF destination < Len(senders)
                  THEN {Send(senders[destination + 1], out)}
                  ELSE IF destination = BROADCAST
                  THEN {Send(m, out) : m \in Range(senders) \ {c}}
                  ELSE {}]

\* Message::Binary: the address byte is data[1] here (data[0] in the source)
handle_binary(c, data) ==
    LET id == client_room_id[c] IN
    IF id = NoRoom THEN Ignore(c)
    ELSE IF id \notin DOMAIN rooms THEN Ignore(c)
    ELSE IF Position(rooms[id].senders, c) = -1 THEN Ignore(c)
    ELSE IF data = <<>> THEN Ignore(c)
    ELSE LET senders == rooms[id].senders
             source == Position(senders, c)
             destination == data[1]
             out == Binary([data EXCEPT ![1] = source])
         IN /\ UNCHANGED <<rooms, client_room_id>>
            /\ pending' = [pending EXCEPT ![c] =
                  IF destination < Len(senders)
                  THEN {Send(senders[destination + 1], out)}
                  ELSE IF destination = BROADCAST
                  THEN {Send(m, out) : m \in Range(senders) \ {c}}
                  ELSE {}]

handle_close_detached(c) == Ignore(c)
handle_close(c) == handle_leave_room(c)

handle_message(c, message) ==
    CASE message.type = "create" -> handle_create_room(c, message.id)
      [] message.type = "join" -> handle_join_room(c, message.id)
      [] message.type = "leave" -> handle_leave_room(c)
      [] message.type = "binary" -> handle_binary(c, message.data)
      [] message.type = "close" -> handle_close(c)
      [] OTHER -> Ignore(c)

\* handle_socket: one iteration of the read loop of connection c, or, at the
\* end of the stream, the final handle_close
RelayRecv(c) ==
    /\ conn[c] # "gone"
    /\ pending[c] = {}
    /\ inq[c] # <<>>
    /\ LET message == Head(inq[c]) IN
         IF message.type = "eof"
         THEN handle_close(c) /\ conn' = [conn EXCEPT ![c] = "gone"]
         ELSE handle_message(c, message) /\ UNCHANGED conn
    /\ inq' = [inq EXCEPT ![c] = Tail(inq[c])]
    /\ handled' = [conn |-> c, message |-> Head(inq[c])]
    /\ UNCHANGED wire

\* Client::send: one of the sends the task of c awaits goes through the sink
\* of its target; a sink whose client has gone fails and the message is lost
RelaySend_lifo(c) ==
    \E p \in pending[c] :
      /\ pending' = [pending EXCEPT ![c] = pending[c] \ {p}]
      /\ wire' = IF conn[p.to] = "open"
                 THEN [wire EXCEPT ![p.to] = <<p.msg>> \o wire[p.to]]
                 ELSE wire
      /\ UNCHANGED <<rooms, client_room_id, inq, conn, handled>>

RelaySend(c) ==
    \E p \in pending[c] :
      /\ pending' = [pending EXCEPT ![c] = pending[c] \ {p}]
      /\ wire' = IF conn[p.to] = "open"
                 THEN [wire EXCEPT ![p.to] = Append(wire[p.to], p.msg)]
                 ELSE wire
      /\ UNCHANGED <<rooms, client_room_id, inq, conn, handled>>

(***************************************************************************)
(* Free-running relay clients: any control or binary message, in any order *)
(***************************************************************************)
ClientMsgs ==
    {ReqCreate(id) : id \in RoomIds \cup {NoRoom}}
      \cup {ReqJoin(id) : id \in RoomIds \cup Uuids}
      \cup {ReqLeave, Junk, Binary(<<>>)}
      \cup {Binary(<<d, "x">>) : d \in {0, 1, BROADCAST}}

ClientSend(c) ==
    /\ conn[c] = "open"
    /\ ops < MaxOps
    /\ Len(inq[c]) < MaxInq
    /\ \E m \in ClientMsgs : inq' = [inq EXCEPT ![c] = Append(inq[c], m)]
    /\ ops' = ops + 1
    /\ UNCHANGED <<rooms, client_room_id, pending, wire, conn, handled>>

ClientClose(c) ==
    /\ conn[c] = "open"
    /\ ops < MaxOps
    /\ conn' = [conn EXCEPT ![c] = "closed"]
    /\ inq' = [inq EXCEPT ![c] = Append(inq[c], Eof)]
    /\ ops' = ops + 1
    /\ UNCHANGED <<rooms, client_room_id, pending, wire, handled>>

(***************************************************************************)
(* Clients around one room: the creator stays and sends, the others join,  *)
(* leave and send; every binary frame says who sent it, after how many of  *)
(* the sender's own joins, and as which of all frames                      *)
(***************************************************************************)
Creator == "c1"

\* the join responses connection c has got so far
Joined(c) ==
    Cardinality({k \in 1..Len(wire[c]) : wire[c][k].type = "join" /\ wire[c][k].size # NoSize})

Frame(destination, c, joined, serial) == Binary(<<destination, c, joined, serial>>)

RoomMsgs(c) ==
    {Frame(d, c, Joined(c), ops) : d \in {0, BROADCAST}}
      \cup (IF c = Creator THEN {} ELSE {ReqJoin(id) : id \in RoomIds} \cup {ReqLeave})

RoomSend(c) ==
    /\ conn[c] = "open"
    /\ ops < MaxRoomOps
    /\ Len(inq[c]) < MaxBacklog
    /\ \E m \in RoomMsgs(c) : inq' = [inq EXCEPT ![c] = Append(inq[c], m)]
    /\ ops' = ops + 1
    /\ UNCHANGED <<rooms, client_room_id, pending, wire, conn, handled>>

(***************************************************************************)
(* Transfer registry (relay/server.rs, relay/transfer.rs) and the sender's *)
(* upload request (sender/http_client.rs)                                  *)
(***************************************************************************)
Names == {"n1", "n2"}            \* hashed transfer names
SenderIp == "192.0.2.7"
LocalIds == {"L", "L2"}          \* invite codes of LAN rooms
RelayIds == {"R"}                \* invite codes of relay rooms
Empty == ""

OK == 200
CREATED == 201
NOT_FOUND == 404

TransferRequest(name, ip, local_room_id, relay_room_id) ==
    [name |-> name, ip |-> ip, local_room_id |-> local_room_id, relay_room_id |-> relay_room_id]

TransferResponse(name, ip, local_room_id, relay_room_id) ==
    [name |-> name, ip |-> ip, local_room_id |-> local_room_id, relay_room_id |-> relay_room_id]

\* the payload send_info puts to /upload
send_info(name, room_id, is_local) ==
    TransferRequest(name, SenderIp,
                    IF is_local THEN room_id ELSE Empty,
                    IF ~is_local THEN room_id ELSE Empty)

\* any well-formed JSON body a client may put
Ips == {SenderIp, "198.51.100.9"}
Payloads ==
    {TransferRequest(n, ip, l, r) :
        n \in Names, ip \in Ips, l \in LocalIds \cup {Empty}, r \in RelayIds \cup {Empty}}

\* transfers.iter().position(|request| request.name == name), -1 for None
FindTransfer_first(list, name) ==
    IF Len(list) > 0 /\ list[1].name = name THEN 0 ELSE -1
FindTransfer(list, name) ==
    IF \E i \in 1..Len(list) : list[i].name = name
    THEN (CHOOSE i \in 1..Len(list) :
              list[i].name = name /\ \A j \in 1..(i-1) : list[j].name # name) - 1
    ELSE -1

\* upload_info, Some(request): the record after the update
Merge_local(request, payload) == [request EXCEPT !.local_room_id = payload.local_room_id]
Merge(request, payload) ==
    IF request.relay_room_id = Empty
    THEN [request EXCEPT !.relay_room_id = payload.relay_room_id]
    ELSE [request EXCEPT !.local_room_id = payload.local_room_id]

\* upload_info, None: the record that is pushed
NewTransfer_inverted(payload) ==
    LET local == IF payload.relay_room_id # Empty THEN payload.local_room_id ELSE Empty
        relay == IF payload.relay_room_id # Empty THEN Empty ELSE payload.relay_room_id
    IN TransferResponse(payload.name, payload.ip, local, relay)
NewTransfer(payload) ==
    LET local == IF payload.relay_room_id = Empty THEN payload.local_room_id ELSE Empty
        relay == IF payload.relay_room_id = Empty THEN Empty ELSE payload.relay_room_id
    IN TransferResponse(payload.name, payload.ip, local, relay)

upload_info(payload) ==
    LET index == FindTransfer(transfers, payload.name) IN
    IF index # -1
    THEN LET request == Merge(transfers[index + 1], payload) IN
         /\ transfers' = [transfers EXCEPT ![index + 1] = request]
         /\ http' = [op |-> "upload", payload |-> payload, status |-> OK, body |-> request]
    ELSE LET t_request == NewTransfer(payload) IN
         /\ Len(transfers) < MaxTransfers
         /\ transfers' = Append(transfers, t_request)
         /\ http' = [op |-> "upload", payload |-> payload, status |-> CREATED, body |-> t_request]

download_info(name) ==
    LET index == FindTransfer(transfers, name) IN
    /\ http' = IF index # -1
               THEN [op |-> "download", name |-> name, status |-> OK,
                     body |-> transfers[index + 1]]
               ELSE [op |-> "download", name |-> name, status |-> NOT_FOUND,
                     body |-> TransferResponse(Empty, Empty, Empty, Empty)]
    /\ UNCHANGED transfers

download_success_kept(name) ==
    /\ http' = [op |-> "download_success", name |-> name, status |-> OK,
                body |-> "transfer deleted"]
    /\ UNCHANGED transfers

download_success(name) ==
    LET index == FindTransfer(transfers, name) IN
    IF index # -1
    THEN /\ transfers' = Remove(transfers, index)
         /\ http' = [op |-> "download_success", name |-> name, status |-> OK,
                     body |-> "transfer deleted"]
    ELSE /\ http' = [op |-> "download_success", name |-> name, status |-> NOT_FOUND,
                     body |-> "transfer not found"]
         /\ UNCHANGED transfers

Upload == (\E payload \in Payloads : upload_info(payload)) /\ UNCHANGED <<relayVars, ops, peerVars>>
Download == (\E name \in Names : download_info(name)) /\ UNCHANGED <<relayVars, ops, peerVars>>
DownloadSuccess ==
    (\E name \in Names : download_success(name)) /\ UNCHANGED <<relayVars, ops, peerVars>>

(***************************************************************************)
(* Peers: packets, keys and frames (shared.rs, sender/client.rs,           *)
(* receiver/client.rs)                                                     *)
(***************************************************************************)
SenderConn == "c1"
Receivers == {"c2", "c3"}
SenderRoom == "r1"               \* the room id start_sender generates
TransferName == "n1"             \* hash_random_name(transfer_name)
InviteHmac == "h1"               \* the 32 random bytes of the sender
IsLocal == FALSE                 \* the connection to the remote relay

SENDER_DESTINATION == 1
RECEIVER_DESTINATION == 0
MAX_CHUNK_SIZE == 65535

\* the files of the sender: File {path, name, size}, bytes named by (path, offset)
SenderFiles ==
    << [path |-> "/a.bin", name |-> "a.bin", size |-> 65536],
       [path |-> "/b.bin", name |-> "b.bin", size |-> 14] >>

\* EphemeralSecret::random: the n-th secret of the sender, the secret of a receiver
SenderSecret(n) == n
ReceiverSecret(r) == IF r = "c2" THEN 11 ELSE 12

\* EphemeralSecret::public_key().to_sec1_bytes()
public_key(secret) == [point |-> secret]
\* diffie_hellman(..).raw_secret_bytes()[0..16] as an Aes128Gcm key
diffie_hellman(secret, public) == [k16 |-> {secret, public.point}]
NoKey == [k16 |-> {}]            \* shared_key: None

\* Hmac::<Sha256>: update(public_key), finalize / verify_slice
Sign(hmac, public) == [mac |-> hmac, over |-> public]
Verify_unkeyed(hmac, public, signature) == signature.over = public
Verify(hmac, public, signature) == signature = Sign(hmac, public)

Handshake(public, signature) ==
    [t |-> "Handshake", public_key |-> public, signature |-> signature]
HandshakeResponse(public, signature) ==
    [t |-> "HandshakeResponse", public_key |-> public, signature |-> signature]
List(entries) == [t |-> "List", entries |-> entries]
Chunk(sequence, chunk) == [t |-> "Chunk", sequence |-> sequence, chunk |-> chunk]
Progress_swapped(index, progress) == [t |-> "Progress", index |-> progress, progress |-> index]
Progress(index, progress) == [t |-> "Progress", index |-> index, progress |-> progress]

\* PacketSender::send_packet / send_encrypted_packet: the frame put on the socket
send_packet(destination, value) == Binary(<<destination, [enc |-> NoKey, value |-> value]>>)
send_encrypted_packet(key, destination, value) ==
    Binary(<<destination, [enc |-> key, value |-> value]>>)

\* on_message, Message::Binary: data[1..], decrypt under the shared key when
\* there is one, Packet::decode; any failure is an unwrap() that panics
Undecodable == [t |-> "undecodable"]
Decode(shared_key, data) ==
    IF Len(data) < 2 THEN Undecodable
    ELSE IF data[2].enc = shared_key THEN data[2].value
    ELSE Undecodable

\* bytes of a file: a run names the bytes [off, off + len) of a sender path
Bytes(path, off, len) == [path |-> path, off |-> off, len |-> len]
ChunkLen(chunk) == chunk.len

\* fs::File::write at the end of a file whose content is a sequence of runs
FileWrite_truncating(content, chunk) == <<chunk>>
FileWrite(content, chunk) ==
    IF content # <<>>
       /\ content[Len(content)].path = chunk.path
       /\ content[Len(content)].off + content[Len(content)].len = chunk.off
    THEN [content EXCEPT ![Len(content)].len = @ + chunk.len]
    ELSE Append(content, chunk)

\* sanitize_filename::sanitize: path separators and reserved characters go
sanitize(name) ==
    CASE name = "../a.bin" -> "..a.bin"
      [] name = "a?.bin" -> "a.bin"
      [] OTHER -> name

(***************************************************************************)
(* Outcome of one on_message call: the context after it, the frames it     *)
(* queued on the socket and the Status it returned                         *)
(***************************************************************************)
Continue(ctx, out) == [ctx |-> ctx, out |-> out, status |-> "run", error |-> ""]
Exit(ctx) == [ctx |-> ctx, out |-> <<>>, status |-> "exit", error |-> ""]
Err(ctx, error) == [ctx |-> ctx, out |-> <<>>, status |-> "err", error |-> error]
Panic(ctx) == [ctx |-> ctx, out |-> <<>>, status |-> "panic", error |-> "unwrap"]

\* start of either peer on Status::Exit: send_json_packet(Leave) puts Leave in
\* the flume channel and future::err ends the incoming handler within the same
\* poll; select returns and drops the outgoing handler that would have
\* forwarded it, so the frame stays in the channel and the socket just ends
LeftInChannel(status) == IF status = "exit" THEN <<ReqLeave>> ELSE <<>>

\* general_purpose::STANDARD.encode of the hmac secrets of the model
Hmacs == {InviteHmac, "h2"}
Base64(hmac) == IF hmac = "h1" THEN "aDE=" ELSE "aDI="
\* the invite the sender advertises: format!("{}-{}", id, base64)
Invite(id, hmac) == id \o "-" \o Base64(hmac)
\* receiver::start: fragment.rfind('-') splits the invite into the room id and
\* the base64 text, which STANDARD.decode turns into the hmac secret
ParseInvite(fragment) ==
    CHOOSE p \in [id : RoomIds \cup Uuids, hmac : Hmacs] :
        Invite(p.id, p.hmac) = fragment

(***************************************************************************)
(* Sender (sender/client.rs)                                               *)
(***************************************************************************)
NoTask == [index |-> -1, sequence |-> 0, size |-> 0, shared_key |-> NoKey]
NoPeer == [point |-> 0]

\* tokio::spawn(on_chunk(sender, shared_key, files)): the task before its first file
SpawnChunks(shared_key, files) ==
    [index |-> 0, sequence |-> 0, size |-> files[1].size, shared_key |-> shared_key]

SenderContext ==
    [status |-> "init", error |-> "", hmac |-> InviteHmac, files |-> SenderFiles,
     keyno |-> 1, key |-> SenderSecret(1), shared_key |-> NoKey, task |-> NoTask,
     stale |-> NoTask, peer |-> NoPeer]

sender_on_join_room(ctx, size) ==
    IF size # NoSize
    THEN Err(ctx, "Invalid join room packet.")
    ELSE Continue(ctx, <<send_packet(SENDER_DESTINATION,
                                     Handshake(public_key(ctx.key),
                                               Sign(ctx.hmac, public_key(ctx.key))))>>)

\* task.abort() stops the chunk task at its next await: a task that is running
\* may still queue the chunk it is working on
sender_on_leave_room_samekey(ctx) ==
    Continue([ctx EXCEPT !.shared_key = NoKey,
                         !.stale = IF ctx.task.index \in 0..(Len(ctx.files) - 1)
                                      /\ ctx.task.size > 0
                                   THEN ctx.task ELSE NoTask,
                         !.task = NoTask,
                         !.peer = NoPeer],
             <<>>)

sender_on_leave_room(ctx) ==
    Continue([ctx EXCEPT !.keyno = @ + 1,
                         !.key = SenderSecret(ctx.keyno + 1),
                         !.shared_key = NoKey,
                         !.stale = IF ctx.task.index \in 0..(Len(ctx.files) - 1)
                                      /\ ctx.task.size > 0
                                   THEN ctx.task ELSE NoTask,
                         !.task = NoTask,
                         !.peer = NoPeer],
             <<>>)

ListEntries(files) ==
    [i \in 1..Len(files) |-> [index |-> i - 1, name |-> files[i].name, size |-> files[i].size]]

on_handshake_finalize(ctx) ==
    Continue([ctx EXCEPT !.task = SpawnChunks(ctx.shared_key, ctx.files)],
             <<send_encrypted_packet(ctx.shared_key, SENDER_DESTINATION,
                                     List(ListEntries(ctx.files)))>>)

sender_on_handshake(ctx, handshake_response) ==
    IF ctx.shared_key # NoKey
    THEN Err(ctx, "Already performed handshake.")
    ELSE IF ~Verify(ctx.hmac, handshake_response.public_key, handshake_response.signature)
    THEN Err(ctx, "Invalid signature from the receiver.")
    ELSE on_handshake_finalize(
             [ctx EXCEPT !.shared_key = diffie_hellman(ctx.key, handshake_response.public_key),
                         !.peer = handshake_response.public_key])

on_progress(ctx, progress) ==
    IF ctx.shared_key = NoKey
    THEN Err(ctx, "Invalid progress packet: no shared key established")
    ELSE IF progress.index >= Len(ctx.files)
    THEN Err(ctx, "Invalid index in progress packet.")
    ELSE IF progress.progress = 100 /\ progress.index = Len(ctx.files) - 1
    THEN Exit(ctx)
    ELSE Continue(ctx, <<>>)

sender_on_binary(ctx, data) ==
    LET value == Decode(ctx.shared_key, data) IN
    CASE value.t = "undecodable" -> Panic(ctx)
      [] value.t = "HandshakeResponse" -> sender_on_handshake(ctx, value)
      [] value.t = "Progress" -> on_progress(ctx, value)
      [] OTHER -> Err(ctx, "Unexpected packet")

\* on_message but for Create, which also calls the registry (SenderRecv)
sender_on_message(ctx, message) ==
    CASE message.type = "join" -> sender_on_join_room(ctx, message.size)
      [] message.type = "leave" -> sender_on_leave_room(ctx)
      [] message.type = "error" -> Err(ctx, message.message)
      [] message.type = "binary" -> sender_on_binary(ctx, message.data)
      [] OTHER -> Continue(ctx, <<>>)

\* what the socket of a peer sees after a call on its first unread message:
\* the queued frames, then, when start returns, the end of the stream, and
\* what the peer had not read is lost
Outcome(c, res) ==
    /\ inq' = [inq EXCEPT ![c] = @ \o res.out \o (IF res.status = "run" THEN <<>> ELSE <<Eof>>)]
    /\ conn' = [conn EXCEPT ![c] = IF res.status = "run" THEN @ ELSE "closed"]
    /\ wire' = [wire EXCEPT ![c] = IF res.status = "run" THEN Tail(@) ELSE <<>>]

\* what the paths given to the sender point to: fs::File::open and metadata()
SenderDisk ==
    [p \in {"/a.bin", "/b.bin", "/empty", "/dir"} |->
        IF p = "/dir" THEN [is_dir |-> TRUE, len |-> 4096]
        ELSE [is_dir |-> FALSE,
              len |-> IF p = "/a.bin" THEN 65536 ELSE IF p = "/b.bin" THEN 14 ELSE 0]]
Paths == DOMAIN SenderDisk \cup {"/missing"}
FileName(path) == CHOOSE name \in {"a.bin", "b.bin", "empty", "dir", "missing"} : path = "/" \o name

\* the paths as sender::start finds them, in the order given
Stat(paths) ==
    [i \in 1..Len(paths) |->
        [path |-> paths[i], name |-> FileName(paths[i]),
         size |-> IF paths[i] \in DOMAIN SenderDisk THEN SenderDisk[paths[i]].len ELSE 0]]

\* sender::start, the loop over the paths: the error of the first path that
\* cannot be opened, is a directory or is empty; "" when every path is a file
\* with content
RECURSIVE Refusal_dirs(_)
Refusal_dirs(files) ==
    IF files = <<>> THEN ""
    ELSE IF Head(files).path \notin DOMAIN SenderDisk THEN "Error: Failed to open file"
    ELSE IF SenderDisk[Head(files).path].is_dir THEN "Error: The path does not point to a file."
    ELSE Refusal_dirs(Tail(files))

RECURSIVE Refusal(_)
Refusal(files) ==
    IF files = <<>> THEN ""
    ELSE IF Head(files).path \notin DOMAIN SenderDisk THEN "Error: Failed to open file"
    ELSE IF SenderDisk[Head(files).path].is_dir THEN "Error: The path does not point to a file."
    ELSE IF Head(files).size = 0 THEN "Error: The file is empty and cannot be sent."
    ELSE Refusal(Tail(files))

\* sender::start up to the first frame: Create { id: room_id }, or the return
\* from the loop over the paths, which drops the socket
SenderStart ==
    /\ sctx.status = "init"
    /\ IF Refusal(sctx.files) = ""
       THEN /\ sctx' = [sctx EXCEPT !.status = "run"]
            /\ inq' = [inq EXCEPT ![SenderConn] = Append(@, ReqCreate(SenderRoom))]
            /\ UNCHANGED conn
       ELSE /\ sctx' = [sctx EXCEPT !.status = "err", !.error = Refusal(sctx.files)]
            /\ inq' = [inq EXCEPT ![SenderConn] = Append(@, Eof)]
            /\ conn' = [conn EXCEPT ![SenderConn] = "closed"]
    /\ UNCHANGED <<rooms, client_room_id, pending, wire, handled, ops, regVars, rctx, disk, launch, boot>>

\* one message of the incoming_handler of sender::start
SenderRecv ==
    /\ sctx.status = "run"
    /\ wire[SenderConn] # <<>>
    /\ LET message == Head(wire[SenderConn]) IN
       IF message.type = "create"
       THEN \* on_create_room: send_info to the registry, Status::Continue
            /\ upload_info(send_info(TransferName, Invite(message.id, sctx.hmac), IsLocal))
            /\ wire' = [wire EXCEPT ![SenderConn] = Tail(@)]
            /\ UNCHANGED <<sctx, inq, conn>>
       ELSE LET res == sender_on_message(sctx, message) IN
            /\ sctx' = [res.ctx EXCEPT !.status = res.status, !.error = res.error]
            /\ Outcome(SenderConn, res)
            /\ UNCHANGED regVars
    /\ UNCHANGED <<rooms, client_room_id, pending, handled, ops, rctx, disk, launch, boot>>

\* sender on_chunk, one turn of the while loop: read_exact, send, count
ChunkSize_under(size) == IF size < MAX_CHUNK_SIZE THEN size ELSE MAX_CHUNK_SIZE - 1
ChunkSize(size) == IF size < MAX_CHUNK_SIZE THEN size ELSE MAX_CHUNK_SIZE
ReadExact(file, size, chunk_size) == Bytes(file.path, file.size - size, chunk_size)
NextChunk(files, task) ==
    LET file == files[task.index + 1] IN
    send_encrypted_packet(task.shared_key, SENDER_DESTINATION,
                          Chunk(task.sequence,
                                ReadExact(file, task.size, ChunkSize(task.size))))

PumpChunk ==
    /\ sctx.status = "run"
    /\ sctx.task.index \in 0..(Len(sctx.files) - 1)
    /\ sctx.task.size > 0
    /\ inq' = [inq EXCEPT ![SenderConn] = Append(@, NextChunk(sctx.files, sctx.task))]
    /\ sctx' = [sctx EXCEPT !.task.sequence = @ + 1,
                            !.task.size = @ - ChunkSize(sctx.task.size)]
    /\ UNCHANGED <<rooms, client_room_id, pending, wire, conn, handled, ops, regVars, rctx, disk, launch, boot>>

\* sender on_chunk, the end of a file: sleep(DELAY), then the next file
PumpNext ==
    /\ sctx.status = "run"
    /\ sctx.task.index \in 0..(Len(sctx.files) - 1)
    /\ sctx.task.size = 0
    /\ sctx' = [sctx EXCEPT !.task =
                   IF sctx.task.index + 1 < Len(sctx.files)
                   THEN [sctx.task EXCEPT !.index = @ + 1, !.sequence = 0,
                                          !.size = sctx.files[sctx.task.index + 2].size]
                   ELSE [sctx.task EXCEPT !.index = @ + 1]]
    /\ UNCHANGED <<rooms, client_room_id, pending, inq, wire, conn, handled, ops, regVars, rctx, disk, launch, boot>>

\* the aborted task reaches its await: with or without one more chunk queued
PumpAbort ==
    /\ sctx.status = "run"
    /\ sctx.stale # NoTask
    /\ sctx' = [sctx EXCEPT !.stale = NoTask]
    /\ \/ inq' = [inq EXCEPT ![SenderConn] = Append(@, NextChunk(sctx.files, sctx.stale))]
       \/ inq' = inq
    /\ UNCHANGED <<rooms, client_room_id, pending, wire, conn, handled, ops, regVars, rctx, disk, launch, boot>>

(***************************************************************************)
(* Receiver (receiver/client.rs)                                           *)
(***************************************************************************)
ReceiverContext(r) ==
    [status |-> "init", error |-> "", hmac |-> InviteHmac, key |-> ReceiverSecret(r),
     shared_key |-> NoKey, files |-> <<>>, index |-> 0, sequence |-> 0,
     progress |-> 0, length |-> 0, peer |-> NoPeer, accepted |-> <<>>]

\* the receiver's outcome also says what is in its download directory
OnDisk(res, files_on_disk) ==
    [ctx |-> res.ctx, out |-> res.out, status |-> res.status, error |-> res.error,
     disk |-> files_on_disk]
RContinue(ctx, files_on_disk, out) == OnDisk(Continue(ctx, out), files_on_disk)
RExit(ctx, files_on_disk) == OnDisk(Exit(ctx), files_on_disk)
RErr(ctx, files_on_disk, error) == OnDisk(Err(ctx, error), files_on_disk)
RPanic(ctx, files_on_disk) == OnDisk(Panic(ctx), files_on_disk)

receiver_on_join_room(ctx, files_on_disk, size) ==
    IF size = NoSize
    THEN RErr(ctx, files_on_disk, "Invalid join room packet.")
    ELSE RContinue(ctx, files_on_disk, <<>>)

receiver_on_leave_room(ctx, files_on_disk) ==
    IF \E i \in 1..Len(ctx.files) : ctx.files[i].progress < 100
    THEN RErr(ctx, files_on_disk, "Transfer was interrupted because the host left the room.")
    ELSE RExit(ctx, files_on_disk)

\* the loop of on_list: Path::exists, fs::File::create, context.files.push
RECURSIVE ListLoop_create(_, _, _)
ListLoop_create(entries, files, files_on_disk) ==
    IF entries = <<>>
    THEN [files |-> files, disk |-> files_on_disk, error |-> ""]
    ELSE LET entry == Head(entries)
             path == sanitize(entry.name)
         IN ListLoop_create(Tail(entries),
                            Append(files, [name |-> entry.name, size |-> entry.size,
                                           progress |-> 0, handle |-> path]),
                            [q \in DOMAIN files_on_disk \cup {path} |->
                                IF q = path THEN <<>> ELSE files_on_disk[q]])

RECURSIVE ListLoop(_, _, _)
ListLoop(entries, files, files_on_disk) ==
    IF entries = <<>>
    THEN [files |-> files, disk |-> files_on_disk, error |-> ""]
    ELSE LET entry == Head(entries)
             path == sanitize(entry.name)
         IN IF path \in DOMAIN files_on_disk
            THEN [files |-> files, disk |-> files_on_disk, error |-> "FileExists"]
            ELSE ListLoop(Tail(entries),
                          Append(files, [name |-> entry.name, size |-> entry.size,
                                         progress |-> 0, handle |-> path]),
                          files_on_disk @@ (path :> <<>>))

on_list_unkeyed(ctx, files_on_disk, list) ==
    LET loop == ListLoop(list.entries, ctx.files, files_on_disk) IN
    IF loop.error # ""
    THEN RErr([ctx EXCEPT !.files = loop.files], loop.disk, loop.error)
    ELSE RContinue([ctx EXCEPT !.files = loop.files, !.index = 0, !.progress = 0,
                               !.sequence = 0, !.length = 0, !.accepted = <<>>],
                   loop.disk, <<>>)

on_list(ctx, files_on_disk, list) ==
    IF ctx.shared_key = NoKey
    THEN RErr(ctx, files_on_disk, "Invalid list packet: no shared key established")
    ELSE LET loop == ListLoop(list.entries, ctx.files, files_on_disk) IN
         IF loop.error # ""
         THEN RErr([ctx EXCEPT !.files = loop.files], loop.disk, loop.error)
         ELSE RContinue([ctx EXCEPT !.files = loop.files, !.index = 0, !.progress = 0,
                                    !.sequence = 0, !.length = 0, !.accepted = <<>>],
                        loop.disk, <<>>)

SequenceMatches_atmost(chunk, ctx) == chunk.sequence <= ctx.sequence
SequenceMatches(chunk, ctx) == chunk.sequence = ctx.sequence

receiver_on_chunk(ctx, files_on_disk, chunk) ==
    IF ctx.shared_key = NoKey
    THEN RErr(ctx, files_on_disk, "Invalid chunk packet: no shared key established")
    ELSE IF ~SequenceMatches(chunk, ctx)
    THEN RErr(ctx, files_on_disk, "SequenceMismatch")
    ELSE IF ctx.index >= Len(ctx.files)
    THEN RErr(ctx, files_on_disk, "Invalid file index.")
    ELSE LET file == ctx.files[ctx.index + 1]
             length == ctx.length + ChunkLen(chunk.chunk)
             written == [files_on_disk EXCEPT ![file.handle] = FileWrite(@, chunk.chunk)]
             counted == [ctx EXCEPT !.length = length, !.sequence = @ + 1,
                                    !.accepted = Append(@, [index |-> ctx.index,
                                                            sequence |-> chunk.sequence])]
         IN IF file.size = 0
            THEN RPanic(counted, written)      \* (length * 100) / 0
            ELSE LET progress == (length * 100) \div file.size
                     report == \/ progress = 100
                               \/ progress - ctx.progress >= 1
                               \/ chunk.sequence = 0
                     reported == [counted EXCEPT !.files[ctx.index + 1].progress = progress,
                                                 !.progress = IF report THEN progress ELSE @]
                     out == IF report
                            THEN <<send_encrypted_packet(ctx.shared_key, RECEIVER_DESTINATION,
                                                         Progress(ctx.index, progress))>>
                            ELSE <<>>
                 IN IF file.size = length
                    THEN RContinue([reported EXCEPT !.index = @ + 1, !.length = 0,
                                                    !.progress = 0, !.sequence = 0],
                                   written, out)
                    ELSE RContinue(reported, written, out)

receiver_on_handshake_again(ctx, files_on_disk, handshake) ==
    IF ~Verify(ctx.hmac, handshake.public_key, handshake.signature)
    THEN RErr(ctx, files_on_disk, "Invalid signature from the sender.")
    ELSE RContinue([ctx EXCEPT !.shared_key = diffie_hellman(ctx.key, handshake.public_key),
                               !.peer = handshake.public_key],
                   files_on_disk,
                   <<send_packet(RECEIVER_DESTINATION,
                                 HandshakeResponse(public_key(ctx.key),
                                                   Sign(ctx.hmac, public_key(ctx.key))))>>)

receiver_on_handshake(ctx, files_on_disk, handshake) ==
    IF ctx.shared_key # NoKey
    THEN RErr(ctx, files_on_disk, "Already performed handshake.")
    ELSE IF ~Verify(ctx.hmac, handshake.public_key, handshake.signature)
    THEN RErr(ctx, files_on_disk, "Invalid signature from the sender.")
    ELSE RContinue([ctx EXCEPT !.shared_key = diffie_hellman(ctx.key, handshake.public_key),
                               !.peer = handshake.public_key],
                   files_on_disk,
                   <<send_packet(RECEIVER_DESTINATION,
                                 HandshakeResponse(public_key(ctx.key),
                                                   Sign(ctx.hmac, public_key(ctx.key))))>>)

receiver_on_binary(ctx, files_on_disk, data) ==
    LET value == Decode(ctx.shared_key, data) IN
    CASE value.t = "undecodable" -> RPanic(ctx, files_on_disk)
      [] value.t = "List" -> on_list(ctx, files_on_disk, value)
      [] value.t = "Chunk" -> receiver_on_chunk(ctx, files_on_disk, value)
      [] value.t = "Handshake" -> receiver_on_handshake(ctx, files_on_disk, value)
      [] OTHER -> RErr(ctx, files_on_disk, "Unexpected packet")

receiver_on_message(ctx, files_on_disk, message) ==
    CASE message.type = "join" -> receiver_on_join_room(ctx, files_on_disk, message.size)
      [] message.type = "leave" -> receiver_on_leave_room(ctx, files_on_disk)
      [] message.type = "error" -> RErr(ctx, files_on_disk, message.message)
      [] message.type = "create" -> RErr(ctx, files_on_disk, "Unexpected json packet")
      [] message.type = "binary" -> receiver_on_binary(ctx, files_on_disk, message.data)
      [] OTHER -> RContinue(ctx, files_on_disk, <<>>)

\* the invite of the advertised transfer, once the sender has advertised it
Advertised ==
    LET index == FindTransfer(transfers, TransferName) IN
    IF index = -1 THEN Empty
    ELSE IF IsLocal THEN transfers[index + 1].local_room_id
    ELSE transfers[index + 1].relay_room_id

\* receiver::start up to the first frame: Join { id } with the id of the invite
ReceiverStart(r) ==
    /\ rctx[r].status = "init"
    /\ Advertised # Empty
    /\ rctx' = [rctx EXCEPT ![r].status = "run", ![r].hmac = ParseInvite(Advertised).hmac]
    /\ inq' = [inq EXCEPT ![r] = Append(@, ReqJoin(ParseInvite(Advertised).id))]
    /\ UNCHANGED <<rooms, client_room_id, pending, wire, conn, handled, ops, regVars, sctx, disk, boot>>

\* receiver::start on a fragment that has no '-' followed by base64: it returns
\* at once and the socket closes
ReceiverRefuse(r) ==
    /\ rctx[r].status = "init"
    /\ rctx' = [rctx EXCEPT ![r].status = "err", ![r].error = "The invite code is not valid."]
    /\ inq' = [inq EXCEPT ![r] = Append(@, Eof)]
    /\ conn' = [conn EXCEPT ![r] = "closed"]
    /\ UNCHANGED wire

\* one message of the incoming_handler of receiver::start
ReceiverRecv(r) ==
    /\ rctx[r].status = "run"
    /\ wire[r] # <<>>
    /\ LET res == receiver_on_message(rctx[r], disk[r], Head(wire[r])) IN
       /\ rctx' = [rctx EXCEPT ![r] = [res.ctx EXCEPT !.status = res.status,
                                                      !.error = res.error]]
       /\ disk' = [disk EXCEPT ![r] = res.disk]
       /\ Outcome(r, res)
    /\ UNCHANGED <<rooms, client_room_id, pending, handled, ops, regVars, sctx, boot>>

\* the receiver process is stopped, or its connection breaks
ReceiverAbort(r) ==
    /\ rctx[r].status = "run"
    /\ Cardinality({q \in Receivers : rctx[q].status = "aborted"}) < MaxAborts
    /\ rctx' = [rctx EXCEPT ![r].status = "aborted"]
    /\ inq' = [inq EXCEPT ![r] = Append(@, Eof)]
    /\ conn' = [conn EXCEPT ![r] = "closed"]
    /\ wire' = [wire EXCEPT ![r] = <<>>]
    /\ UNCHANGED <<rooms, client_room_id, pending, handled, ops, regVars, sctx, disk, boot>>

(***************************************************************************)
(* start_receiver (receiver/mod.rs): look the transfer up, dial the LAN    *)
(* address, fall back to the relay, report to the registry                 *)
(***************************************************************************)
Launched == "c2"                 \* the receiver that is started by start_receiver
Dials == {"connected", "failed", "timeout"}
NotLaunched ==
    [pc |-> "idle", res |-> TransferResponse(Empty, Empty, Empty, Empty),
     lan |-> "none", relay |-> "none", errors |-> <<>>]

ValidInvite(fragment) ==
    \E p \in [id : RoomIds \cup Uuids, hmac : Hmacs] : Invite(p.id, p.hmac) = fragment

\* what start_ws_com logs with error! for a dial that did not connect
DialError(dial) ==
    IF dial = "failed" THEN <<"Error: Failed to connect">>
    ELSE IF dial = "timeout" THEN <<"Error: Timeout reached for local connection attempt">>
    ELSE <<>>

\* what start_ws_com returns for a dial that did not connect: only the arm of
\* the timeout ends in `?`; the Err built in the arm of a connection error is
\* the value of the match, which is dropped, and the function ends with Ok(())
start_ws_com(dial) == IF dial = "timeout" THEN "Err" ELSE "Ok"

\* http_client::download_info(relay, name): the body is parsed whatever the status
Lookup(r) ==
    /\ launch[r].pc = "idle"
    /\ download_info(TransferName)
    /\ launch' = [launch EXCEPT ![r].pc = "dial_lan", ![r].res = http'.body]
    /\ UNCHANGED <<relayVars, ops, sctx, rctx, disk, boot>>

\* start_ws_com("ws://" + res.ip + ":9000", res.local_room_id): connect_async
\* under a timeout of 5 s. The relay the sender embeds is not part of this
\* model: a receiver that connects to it is only known to be busy there
DialLan(r) ==
    /\ launch[r].pc = "dial_lan"
    /\ \E dial \in Dials :
          launch' = [launch EXCEPT ![r].lan = dial,
                                   ![r].errors = @ \o DialError(dial),
                                   ![r].pc = IF dial = "connected" THEN "lan_session"
                                             ELSE IF start_ws_com(dial) = "Err"
                                             THEN "dial_relay" ELSE "post"]
    /\ UNCHANGED <<relayVars, ops, regVars, sctx, rctx, disk, boot>>

\* start_ws_com(relay, res.relay_room_id) after the LAN dial returned Err;
\* what this one returns is only logged at debug level:
\* connect_async, then receiver::start on the socket
DialRelay(r) ==
    /\ launch[r].pc = "dial_relay"
    /\ \E dial \in Dials :
          /\ launch' = [launch EXCEPT ![r].relay = dial,
                                      ![r].errors = @ \o DialError(dial),
                                      ![r].pc = IF dial = "connected" THEN "session" ELSE "post"]
          /\ IF dial # "connected"
             THEN UNCHANGED <<rctx, inq, wire, conn>>
             ELSE IF ValidInvite(launch[r].res.relay_room_id)
             THEN /\ rctx[r].status = "init"
                  /\ rctx' = [rctx EXCEPT ![r].status = "run",
                                          ![r].hmac = ParseInvite(launch[r].res.relay_room_id).hmac]
                  /\ inq' = [inq EXCEPT ![r] =
                                Append(@, ReqJoin(ParseInvite(launch[r].res.relay_room_id).id))]
                  /\ UNCHANGED <<wire, conn>>
             ELSE ReceiverRefuse(r)
    /\ UNCHANGED <<rooms, client_room_id, pending, handled, ops, regVars, sctx, disk, boot>>

\* receiver::start has returned, or no dial connected, and start_receiver
\* goes on: http_client::download_success(relay, name)
Finished(r) ==
    \/ launch[r].pc = "post"
    \/ launch[r].pc = "lan_session"
    \/ launch[r].pc = "session" /\ rctx[r].status \in {"exit", "err"}

Report(r) ==
    /\ Finished(r)
    /\ download_success(TransferName)
    /\ launch' = [launch EXCEPT ![r].pc = "done"]
    /\ UNCHANGED <<relayVars, ops, sctx, rctx, disk, boot>>

(***************************************************************************)
(* start_sender (sender/mod.rs): the embedded relay, the path over the     *)
(* remote relay (the sender Context above) and the path over the embedded  *)
(* relay, which runs the same sender::start on a connection of its own and *)
(* is kept here by its position only                                       *)
(***************************************************************************)
NotSpawned ==
    [pc |-> "idle", local_ws_thread |-> "none", relay_thread |-> "none",
     local_thread |-> "none", rx |-> 0, local_start |-> "none", local_task |-> "none"]

\* a chunk task that on_handshake_finalize spawned and that has not ended
TaskAlive(task) == task.index \in 0..(Len(sctx.files) - 1)

\* start_sender up to rx.recv(): channel(1) and the three tokio::spawn
start_sender ==
    /\ boot.pc = "idle"
    /\ boot' = [boot EXCEPT !.pc = "waiting", !.local_ws_thread = "running",
                            !.relay_thread = "running", !.local_thread = "running"]
    /\ UNCHANGED <<relayVars, ops, regVars, sctx, rctx, disk, launch>>

\* connect_to_server of the local path: connect_async fails and the function
\* returns, or sender::start runs, spawns its chunk task at a verified
\* HandshakeResponse, and returns; the chunk task ends on its own
connect_to_server ==
    /\ boot.local_thread = "running"
    /\ \/ /\ boot.local_start = "none"
          /\ \E res \in {"run", "refused"} :
                boot' = [boot EXCEPT !.local_start = res,
                                     !.local_thread = IF res = "run" THEN @ ELSE "finished"]
       \/ /\ boot.local_start = "run"
          /\ boot.local_task = "none"
          /\ boot' = [boot EXCEPT !.local_task = "running"]
       \/ /\ boot.local_start = "run"
          /\ boot' = [boot EXCEPT !.local_start = "returned"]
    /\ UNCHANGED <<relayVars, ops, regVars, sctx, rctx, disk, launch>>

\* the chunk task of the local path: the loop is over, or its send finds the
\* channel of a sender::start that is gone
LocalPump ==
    /\ boot.local_task = "running"
    /\ boot' = [boot EXCEPT !.local_task = "finished"]
    /\ UNCHANGED <<relayVars, ops, regVars, sctx, rctx, disk, launch>>

\* connect_to_server after sender::start has returned, for whatever reason:
\* tx.send(()) on the channel of capacity 1, then the task is over
Returned(path) ==
    IF path = "relay" THEN sctx.status \in {"exit", "err"} ELSE boot.local_start = "returned"
Signal ==
    /\ boot.rx = 0
    /\ \E path \in {"relay", "local"} :
          /\ Returned(path)
          /\ IF path = "relay"
             THEN /\ boot.relay_thread = "running"
                  /\ boot' = [boot EXCEPT !.rx = 1, !.relay_thread = "finished"]
             ELSE /\ boot.local_thread = "running"
                  /\ boot' = [boot EXCEPT !.rx = 1, !.local_thread = "finished"]
    /\ UNCHANGED <<relayVars, ops, regVars, sctx, rctx, disk, launch>>

\* JoinHandle::abort: a task that is over stays as it is, another is dropped
Abort(thread) == IF thread = "running" THEN "aborted" ELSE thread

\* start_sender from rx.recv() on: the three abort() and the return; the
\* aborted relay path drops its Context and its socket, not its chunk task
start_sender_return ==
    /\ boot.pc = "waiting"
    /\ boot.rx = 1
    /\ boot' = [boot EXCEPT !.pc = "returned", !.rx = 0,
                            !.local_ws_thread = Abort(@),
                            !.relay_thread = Abort(@),
                            !.local_thread = Abort(@),
                            !.local_start = IF boot.local_thread = "running" /\ @ = "run"
                                            THEN "aborted" ELSE @]
    /\ IF boot.relay_thread = "running" /\ sctx.status \in {"init", "run"}
       THEN /\ sctx' = [sctx EXCEPT !.status = "aborted"]
            /\ inq' = [inq EXCEPT ![SenderConn] = Append(@, Eof)]
            /\ conn' = [conn EXCEPT ![SenderConn] = "closed"]
       ELSE UNCHANGED <<sctx, inq, conn>>
    /\ UNCHANGED <<rooms, client_room_id, pending, wire, handled, ops, regVars, rctx, disk, launch>>

\* the chunk task after its sender::start is gone: its sleep(DELAY) ends the
\* loop, or its next send fails and the task panics
PumpOrphan ==
    /\ sctx.status \notin {"init", "run"}
    /\ TaskAlive(sctx.task)
    /\ sctx' = [sctx EXCEPT !.task.index = Len(sctx.files)]
    /\ UNCHANGED <<relayVars, ops, regVars, rctx, disk, launch, boot>>

InitPeers ==
    /\ sctx = SenderContext
    /\ rctx = [r \in Receivers |-> ReceiverContext(r)]
    /\ disk = [r \in Receivers |-> <<>>]
    /\ launch = [r \in Receivers |-> NotLaunched]
    /\ boot = NotSpawned

(***************************************************************************)
(* A receiver fed by a peer that holds the invite but follows no protocol: *)
(* frames of the relay and of a sender in any order, chunks with any       *)
(* sequence number                                                         *)
(***************************************************************************)
FedReceiver == "c2"
FedKey == diffie_hellman(ReceiverSecret(FedReceiver), public_key(SenderSecret(1)))
FedChunks ==
    {Bytes("/a.bin", 0, MAX_CHUNK_SIZE), Bytes("/a.bin", MAX_CHUNK_SIZE, 1), Bytes("/b.bin", 0, 14)}
FedFrames ==
    {RespJoin(1), RespLeave(0)}
    \cup {send_packet(SENDER_DESTINATION,
                      Handshake(public_key(SenderSecret(1)), Sign(h, public_key(SenderSecret(1))))) :
              h \in Hmacs}
    \cup {send_encrypted_packet(FedKey, SENDER_DESTINATION,
                                Handshake(public_key(SenderSecret(2)), Sign(h, public_key(SenderSecret(2))))) :
              h \in Hmacs}
    \cup {send_encrypted_packet(FedKey, SENDER_DESTINATION, List(ListEntries(SenderFiles)))}
    \cup {send_packet(SENDER_DESTINATION, List(ListEntries(SenderFiles)))}
    \cup {send_encrypted_packet(FedKey, SENDER_DESTINATION,
                                List(<<[index |-> 0, name |-> "empty", size |-> 0]>>))}
    \cup {send_encrypted_packet(k, SENDER_DESTINATION, Chunk(sequence, chunk)) :
              k \in {FedKey, NoKey}, sequence \in 0..MaxSeq, chunk \in FedChunks}

Feed ==
    /\ ops < MaxFeed
    /\ rctx[FedReceiver].status = "run"
    /\ Len(wire[FedReceiver]) < MaxInq
    /\ \E frame \in FedFrames : wire' = [wire EXCEPT ![FedReceiver] = Append(@, frame)]
    /\ ops' = ops + 1
    /\ UNCHANGED <<rooms, client_room_id, pending, inq, conn, handled, regVars, peerVars>>

InitRelay ==
    /\ rooms = <<>>
    /\ client_room_id = [c \in Conns |-> NoRoom]
    /\ pending = [c \in Conns |-> {}]
    /\ inq = [c \in Conns |-> <<>>]
    /\ wire = [c \in Conns |-> <<>>]
    /\ conn = [c \in Conns |-> "open"]
    /\ handled = [conn |-> "none"]
    /\ ops = 0

InitRegistry ==
    /\ transfers = <<>>
    /\ http = [op |-> "none"]

Init == InitRelay /\ InitRegistry /\ InitPeers

RelayStep == \E c \in Conns : RelayRecv(c) /\ UNCHANGED <<ops, regVars, peerVars>>
RelayDeliver == \E c \in Conns : RelaySend(c) /\ UNCHANGED <<ops, regVars, peerVars>>
FreeSend == \E c \in Conns : ClientSend(c) /\ UNCHANGED <<regVars, peerVars>>
FreeClose == \E c \in Conns : ClientClose(c) /\ UNCHANGED <<regVars, peerVars>>

NextRelay == RelayStep \/ RelayDeliver \/ FreeSend \/ FreeClose

SpecRelay == Init /\ [][NextRelay]_vars

\* the receivers are interchangeable: "c2" is the name of the one whose Join
\* the relay handles first
ReceiverBegin ==
    \E r \in Receivers :
        /\ r = "c2" \/ client_room_id["c2"] # NoRoom \/ conn["c2"] = "gone"
        /\ ReceiverStart(r)
        /\ UNCHANGED launch
ReceiverStep == \E r \in Receivers : ReceiverRecv(r) /\ UNCHANGED launch
ReceiverStop == \E r \in Receivers : ReceiverAbort(r) /\ UNCHANGED launch

NextTransfer ==
    \/ RelayStep \/ RelayDeliver
    \/ SenderStart \/ SenderRecv \/ PumpChunk \/ PumpNext \/ PumpAbort
    \/ ReceiverBegin \/ ReceiverStep \/ ReceiverStop

SpecTransfer == Init /\ [][NextTransfer]_vars

\* the sender has created its room and advertised the invite
InitAdvertised ==
    /\ rooms = (SenderRoom :> [senders |-> <<SenderConn>>, size |-> DEFAULT_ROOM_SIZE])
    /\ client_room_id = [c \in Conns |-> IF c = SenderConn THEN SenderRoom ELSE NoRoom]
    /\ pending = [c \in Conns |-> {}]
    /\ inq = [c \in Conns |-> <<>>]
    /\ wire = [c \in Conns |-> <<>>]
    /\ conn = [c \in Conns |-> "open"]
    /\ handled = [conn |-> SenderConn, message |-> ReqCreate(SenderRoom)]
    /\ ops = 0
    /\ transfers = <<NewTransfer(send_info(TransferName, Invite(SenderRoom, InviteHmac), IsLocal))>>
    /\ http = [op |-> "upload",
               payload |-> send_info(TransferName, Invite(SenderRoom, InviteHmac), IsLocal),
               status |-> CREATED,
               body |-> NewTransfer(send_info(TransferName, Invite(SenderRoom, InviteHmac), IsLocal))]
    /\ sctx = [SenderContext EXCEPT !.status = "run"]
    /\ rctx = [r \in Receivers |-> ReceiverContext(r)]
    /\ disk = [r \in Receivers |-> <<>>]
    /\ launch = [r \in Receivers |-> NotLaunched]
    /\ boot = NotSpawned

NextReceiver == ReceiverBegin \/ Feed \/ ReceiverStep

SpecReceiver == InitAdvertised /\ [][NextReceiver]_vars

ReceiverLookup == Lookup(Launched)
ReceiverDialLan == DialLan(Launched)
ReceiverDialRelay == DialRelay(Launched)
ReceiverReport == Report(Launched)

\* one sender and one receiver started by start_receiver, a relay that stays
\* up, nobody stopped from outside
NextRendezvous ==
    \/ RelayStep \/ RelayDeliver
    \/ SenderStart \/ SenderRecv \/ PumpChunk \/ PumpNext
    \/ ReceiverLookup \/ ReceiverDialLan \/ ReceiverDialRelay \/ ReceiverStep \/ ReceiverReport

\* every task of the runtime that can run does run
FairRendezvous ==
    /\ WF_vars(RelayStep) /\ WF_vars(RelayDeliver)
    /\ WF_vars(SenderStart) /\ WF_vars(SenderRecv) /\ WF_vars(PumpChunk) /\ WF_vars(PumpNext)
    /\ WF_vars(ReceiverLookup) /\ WF_vars(ReceiverDialLan) /\ WF_vars(ReceiverDialRelay)
    /\ WF_vars(ReceiverStep) /\ WF_vars(ReceiverReport)

SpecRendezvous == Init /\ [][NextRendezvous]_vars /\ FairRendezvous

\* the chunk task alone, from the moment on_handshake_finalize spawned it, for
\* one file of any of these sizes
PumpSizes ==
    {1, 14, MAX_CHUNK_SIZE - 1}
    \cup {k * MAX_CHUNK_SIZE : k \in 1..MaxChunks}
    \cup {k * MAX_CHUNK_SIZE + 1 : k \in 1..MaxChunks}
    \cup {(k + 1) * MAX_CHUNK_SIZE - 1 : k \in 1..MaxChunks}

PumpFile(size) == <<[path |-> "/a.bin", name |-> "a.bin", size |-> size]>>

InitPump ==
    /\ rooms = (SenderRoom :> [senders |-> <<SenderConn, FedReceiver>>, size |-> DEFAULT_ROOM_SIZE])
    /\ client_room_id = [c \in Conns |-> IF c \in {SenderConn, FedReceiver} THEN SenderRoom
                                        ELSE NoRoom]
    /\ pending = [c \in Conns |-> {}]
    /\ inq = [c \in Conns |-> <<>>]
    /\ wire = [c \in Conns |-> <<>>]
    /\ conn = [c \in Conns |-> "open"]
    /\ handled = [conn |-> SenderConn, message |-> ReqCreate(SenderRoom)]
    /\ ops = 0
    /\ transfers = <<NewTransfer(send_info(TransferName, Invite(SenderRoom, InviteHmac), IsLocal))>>
    /\ http = [op |-> "download", name |-> TransferName, status |-> OK,
               body |-> NewTransfer(send_info(TransferName, Invite(SenderRoom, InviteHmac), IsLocal))]
    /\ \E size \in PumpSizes :
          sctx = [SenderContext EXCEPT
                     !.status = "run", !.files = PumpFile(size), !.shared_key = FedKey,
                     !.peer = public_key(ReceiverSecret(FedReceiver)),
                     !.task = SpawnChunks(FedKey, PumpFile(size))]
    /\ rctx = [r \in Receivers |->
                 IF r = FedReceiver
                 THEN [ReceiverContext(r) EXCEPT !.status = "run", !.shared_key = FedKey,
                                                 !.peer = public_key(SenderSecret(1))]
                 ELSE ReceiverContext(r)]
    /\ disk = [r \in Receivers |-> <<>>]
    /\ launch = [r \in Receivers |-> NotLaunched]
    /\ boot = NotSpawned

NextPump == PumpChunk \/ PumpNext

SpecPump == InitPump /\ [][NextPump]_vars

\* the sender alone with the relay, started on any list of up to MaxPaths paths
PathLists == UNION {[1..n -> Paths] : n \in 1..MaxPaths}

InitStart ==
    /\ InitRelay
    /\ InitRegistry
    /\ \E paths \in PathLists : sctx = [SenderContext EXCEPT !.files = Stat(paths)]
    /\ rctx = [r \in Receivers |-> ReceiverContext(r)]
    /\ disk = [r \in Receivers |-> <<>>]
    /\ launch = [r \in Receivers |-> NotLaunched]
    /\ boot = NotSpawned

NextStart == SenderStart \/ RelayStep \/ RelayDeliver \/ SenderRecv

SpecStart == InitStart /\ [][NextStart]_vars

\* the relay with one room, created by Creator, whose reply has arrived
InitRoom ==
    /\ rooms = (SenderRoom :> [senders |-> <<Creator>>, size |-> DEFAULT_ROOM_SIZE])
    /\ client_room_id = [c \in Conns |-> IF c = Creator THEN SenderRoom ELSE NoRoom]
    /\ pending = [c \in Conns |-> {}]
    /\ inq = [c \in Conns |-> <<>>]
    /\ wire = [c \in Conns |-> IF c = Creator THEN <<RespCreate(SenderRoom)>> ELSE <<>>]
    /\ conn = [c \in Conns |-> "open"]
    /\ handled = [conn |-> Creator, message |-> ReqCreate(SenderRoom)]
    /\ ops = 0
    /\ InitRegistry
    /\ InitPeers

RoomTraffic == \E c \in Conns : RoomSend(c) /\ UNCHANGED <<regVars, peerVars>>

NextRoom == RelayStep \/ RelayDeliver \/ RoomTraffic \/ FreeClose

SpecRoom == InitRoom /\ [][NextRoom]_vars

\* the fed receiver in a download directory that may hold files already
OldContent == <<Bytes("old", 0, 7)>>
Directories == {[q \in S |-> OldContent] : S \in SUBSET {"a.bin", "b.bin"}}

InitExisting ==
    /\ rooms = (SenderRoom :> [senders |-> <<SenderConn>>, size |-> DEFAULT_ROOM_SIZE])
    /\ client_room_id = [c \in Conns |-> IF c = SenderConn THEN SenderRoom ELSE NoRoom]
    /\ pending = [c \in Conns |-> {}]
    /\ inq = [c \in Conns |-> <<>>]
    /\ wire = [c \in Conns |-> <<>>]
    /\ conn = [c \in Conns |-> "open"]
    /\ handled = [conn |-> SenderConn, message |-> ReqCreate(SenderRoom)]
    /\ ops = 0
    /\ transfers = <<NewTransfer(send_info(TransferName, Invite(SenderRoom, InviteHmac), IsLocal))>>
    /\ http = [op |-> "upload",
               payload |-> send_info(TransferName, Invite(SenderRoom, InviteHmac), IsLocal),
               status |-> CREATED,
               body |-> NewTransfer(send_info(TransferName, Invite(SenderRoom, InviteHmac), IsLocal))]
    /\ sctx = [SenderContext EXCEPT !.status = "run"]
    /\ rctx = [r \in Receivers |-> ReceiverContext(r)]
    /\ \E directory \in Directories :
          disk = [r \in Receivers |-> IF r = FedReceiver THEN directory ELSE <<>>]
    /\ launch = [r \in Receivers |-> NotLaunched]
    /\ boot = NotSpawned

SpecExisting == InitExisting /\ [][NextReceiver]_vars

NextRegistry == Upload \/ Download \/ DownloadSuccess

SpecRegistry == Init /\ [][NextRegistry]_vars

(***************************************************************************)
(* Properties of the room registry                                         *)
(***************************************************************************)
\* the step in which the relay task of c takes the head of its stream
Handles(c) == inq[c] # <<>> /\ inq'[c] = Tail(inq[c])

Occurrences(c) ==
    {<<id, i>> \in (DOMAIN rooms) \X (1..(DEFAULT_ROOM_SIZE + 2)) :
        i <= Len(rooms[id].senders) /\ rooms[id].senders[i] = c}

\* C1: every room of the registry holds between 0 and capacity = 2 members,
\* whatever creates, joins, leaves and closes the connections have sent
C1_Occupancy ==
    \A id \in DOMAIN rooms :
        /\ rooms[id].size = DEFAULT_ROOM_SIZE
        /\ Len(rooms[id].senders) >= 0
        /\ Len(rooms[id].senders) <= DEFAULT_ROOM_SIZE

\* a join was refused on a room that holds two members
C1_Witness ==
    \E id \in DOMAIN rooms : \E c \in Conns :
        /\ Len(rooms[id].senders) = DEFAULT_ROOM_SIZE
        /\ handled = [conn |-> c, message |-> ReqJoin(id)]
        /\ c \notin Range(rooms[id].senders)
        /\ conn[c] = "open"

\* C2: a connection is a member of at most one room, at most once in its member
\* list, and a create or join of a connection that is a member of some room
\* changes no membership and is not answered
C2_Membership == \A c \in Conns : Cardinality(Occurrences(c)) <= 1

C2_Ignored ==
    \A c \in Conns :
        (Handles(c) /\ Head(inq[c]).type \in {"create", "join"} /\ Occurrences(c) # {})
            => /\ rooms' = rooms
               /\ client_room_id' = client_room_id
               /\ pending'[c] = {}
               /\ wire' = wire

C2_SingleRoom == []C2_Membership /\ [][C2_Ignored]_vars

\* a member of one room has had a create or join for another room handled
C2_Witness ==
    \E c \in Conns :
        /\ handled.conn = c
        /\ handled.message.type \in {"create", "join"}
        /\ Occurrences(c) # {}
        /\ client_room_id[c] \in RoomIds
        /\ handled.message.id \in Uuids \cup {NoRoom}
        /\ pending[c] = {}

\* C6: a join for a room that holds 2 members, sent by a connection in the
\* Lobby, is answered by one error{"The room is full."} to the requester alone
\* and changes no room and no connection's state
C6_Step ==
    \A c \in Conns : \A id \in DOMAIN rooms :
        (/\ Handles(c)
         /\ Head(inq[c]) = ReqJoin(id)
         /\ Len(rooms[id].senders) = 2
         /\ Occurrences(c) = {})
            => /\ pending'[c] = {Send(c, RespError("The room is full."))}
               /\ rooms' = rooms
               /\ client_room_id' = client_room_id
               /\ client_room_id'[c] = NoRoom
               /\ wire' = wire
               /\ \A d \in Conns \ {c} : pending'[d] = pending[d]

\* the reply, and nothing else, then reaches the requester
C6_Delivery ==
    \A c \in Conns :
        (/\ pending[c] = {Send(c, RespError("The room is full."))}
         /\ pending'[c] # pending[c])
            => /\ pending'[c] = {}
               /\ \A d \in Conns \ {c} : wire'[d] = wire[d]
               /\ wire'[c] = IF conn[c] = "open"
                             THEN Append(wire[c], RespError("The room is full."))
                             ELSE wire[c]

C6_RoomFull == [][C6_Step /\ C6_Delivery]_vars

\* the error has reached a third connection while the room still has its two members
C6_Witness ==
    \E c \in Conns : \E id \in DOMAIN rooms :
        /\ handled = [conn |-> c, message |-> ReqJoin(id)]
        /\ Len(rooms[id].senders) = 2
        /\ c \notin Range(rooms[id].senders)
        /\ client_room_id[c] = NoRoom
        /\ pending[c] = {}
        /\ wire[c] = <<RespError("The room is full.")>>

(***************************************************************************)
(* Properties of the transfer registry                                     *)
(***************************************************************************)
Stored(list, name) == list[FindTransfer(list, name) + 1]
HasBoth(t) == t.local_room_id # Empty /\ t.relay_room_id # Empty
OneSupplied(payload) ==
    (payload.local_room_id = Empty) # (payload.relay_room_id = Empty)

\* a step that answers PUT /upload (every other request sets another op)
UploadOf(payload) == http'.op = "upload" /\ http'.payload = payload

\* C7: the advertisement list never holds two advertisements of one name
C7_UniqueName ==
    \A i \in 1..Len(transfers) : \A j \in 1..Len(transfers) :
        transfers[i].name = transfers[j].name => i = j

\* both names are advertised and the last request merged into one of them
C7_Witness ==
    /\ Len(transfers) = 2
    /\ http.op = "upload"
    /\ http.status = OK
    /\ http.payload.name = transfers[2].name

\* C8: once the advertisement of a name holds both room ids, repeating the
\* sender's upload of its local id or of its relay id leaves it unchanged
C8_Idempotent ==
    [][\A n \in Names : \A is_local \in BOOLEAN :
         (/\ FindTransfer(transfers, n) # -1
          /\ HasBoth(Stored(transfers, n))
          /\ UploadOf(send_info(n,
                                IF is_local THEN Stored(transfers, n).local_room_id
                                            ELSE Stored(transfers, n).relay_room_id,
                                is_local)))
            => transfers' = transfers]_vars

\* C9: the sender's two uploads for a name, local id and relay id, in either
\* order on a registry without that name: 201, then 200 with both ids stored
C9_TwoPhase ==
    [][\A n \in Names : \A l \in LocalIds : \A r \in RelayIds : \A local_first \in BOOLEAN :
         LET first == send_info(n, IF local_first THEN l ELSE r, local_first)
             second == send_info(n, IF local_first THEN r ELSE l, ~local_first)
             both == TransferResponse(n, SenderIp, l, r)
         IN /\ (FindTransfer(transfers, n) = -1 /\ UploadOf(first))
                   => http'.status = CREATED
            /\ (/\ http.op = "upload"
                /\ http.payload = first
                /\ http.status = CREATED
                /\ UploadOf(second))
                   => /\ http'.status = OK
                      /\ http'.body = both
                      /\ FindTransfer(transfers', n) # -1
                      /\ Stored(transfers', n) = both]_vars

\* the second of the two uploads has been answered
C9_Witness ==
    \E n \in Names : \E l \in LocalIds : \E r \in RelayIds :
        /\ http.op = "upload"
        /\ http.status = OK
        /\ http.payload \in {send_info(n, l, TRUE), send_info(n, r, FALSE)}
        /\ http.body = TransferResponse(n, SenderIp, l, r)
        /\ FindTransfer(transfers, n) # -1
        /\ Stored(transfers, n) = http.body

\* C10: an upload under a name that is not stored appends one advertisement
\* and returns 201 with it; of the two room ids it stores the one the payload
\* supplies and leaves the other empty
C10_Create ==
    [][\A payload \in Payloads :
         (FindTransfer(transfers, payload.name) = -1 /\ UploadOf(payload))
            => /\ Len(transfers') = Len(transfers) + 1
               /\ SubSeq(transfers', 1, Len(transfers)) = transfers
               /\ http'.status = CREATED
               /\ http'.body = transfers'[Len(transfers')]
               /\ http'.body.name = payload.name
               /\ http'.body.ip = payload.ip
               /\ ~HasBoth(http'.body)
               /\ OneSupplied(payload)
                    => /\ http'.body.local_room_id = payload.local_room_id
                       /\ http'.body.relay_room_id = payload.relay_room_id
                       /\ OneSupplied(http'.body)]_vars

\* a first upload with one room id has been answered
C10_Witness ==
    /\ http.op = "upload"
    /\ http.status = CREATED
    /\ OneSupplied(http.payload)
    /\ Len(transfers) = 2
    /\ transfers[2] = http.body
    /\ http.body.local_room_id = http.payload.local_room_id
    /\ http.body.relay_room_id = http.payload.relay_room_id

(***************************************************************************)
(* Claims about the peers                                                  *)
(***************************************************************************)
\* the sender accepted the HandshakeResponse of r and r accepted a Handshake
\* of the sender
Paired(r) ==
    /\ sctx.shared_key # NoKey
    /\ sctx.peer = public_key(rctx[r].key)
    /\ rctx[r].shared_key # NoKey
    /\ \E n \in 1..sctx.keyno : rctx[r].peer = public_key(SenderSecret(n))

\* C3: a sender and a receiver that completed the handshake with each other
\* hold the same session key, also after one receiver left and another joined
C3_KeyAgreement ==
    \A r \in Receivers : Paired(r) => sctx.shared_key = rctx[r].shared_key

\* receiver r handles the first unread message of its socket
Receives(r) ==
    /\ rctx[r].status = "run"
    /\ wire[r] # <<>>
    /\ Len(wire'[r]) < Len(wire[r])

\* the packet in the first unread message of r, as on_message decodes it
Incoming(r) ==
    IF Head(wire[r]).type = "binary"
    THEN Decode(rctx[r].shared_key, Head(wire[r]).data)
    ELSE Undecodable

\* in the chunks r accepted since the list, the k-th chunk of a file has
\* sequence number k - 1
C4_Log ==
    \A r \in Receivers :
        LET log == rctx[r].accepted IN
        \A k \in 1..Len(log) :
            log[k].sequence =
                Cardinality({j \in 1..(k - 1) : log[j].index = log[k].index})

\* a chunk is written only if its sequence number is the expected one; the
\* expected number then grows by one, or restarts at 0 for the next file when
\* the byte count reaches the announced size; a chunk with another sequence
\* number ends the receiver with SequenceMismatch, nothing written or counted
C4_Step ==
    \A r \in Receivers :
        (Receives(r) /\ Incoming(r).t = "Chunk") =>
            LET ctx == rctx[r]
                chunk == Incoming(r)
                accepted == rctx'[r].accepted # ctx.accepted
            IN /\ accepted <=> (/\ ctx.shared_key # NoKey
                                /\ chunk.sequence = ctx.sequence
                                /\ ctx.index < Len(ctx.files))
               /\ accepted <=> disk'[r] # disk[r]
               /\ accepted =>
                      /\ rctx'[r].accepted =
                             Append(ctx.accepted, [index |-> ctx.index, sequence |-> ctx.sequence])
                      /\ disk'[r] = [disk[r] EXCEPT ![ctx.files[ctx.index + 1].handle] =
                                                        FileWrite(@, chunk.chunk)]
                      /\ rctx'[r].status = "run" =>
                             IF ctx.length + ChunkLen(chunk.chunk) = ctx.files[ctx.index + 1].size
                             THEN /\ rctx'[r].index = ctx.index + 1
                                  /\ rctx'[r].sequence = 0
                                  /\ rctx'[r].length = 0
                             ELSE /\ rctx'[r].index = ctx.index
                                  /\ rctx'[r].sequence = ctx.sequence + 1
                                  /\ rctx'[r].length = ctx.length + ChunkLen(chunk.chunk)
               /\ (ctx.shared_key # NoKey /\ chunk.sequence # ctx.sequence) =>
                      /\ rctx'[r] = [ctx EXCEPT !.status = "err", !.error = "SequenceMismatch"]
                      /\ disk' = disk
                      /\ inq'[r] = Append(inq[r], Eof)

\* C4: the receiver accepts a chunk only with the next expected sequence
\* number of the current file, so the accepted numbers of a file are 0, 1, 2,
\* ..., restarting at 0 when the file's byte count reaches its announced size;
\* a chunk with another number is rejected with SequenceMismatch and changes
\* neither a file nor a counter
C4_Sequence == []C4_Log /\ [][C4_Step]_vars

\* a receiver took both chunks of the first file and the chunk of the second,
\* each numbered from 0, and then rejected a chunk numbered 1
C4_Witness ==
    \E r \in Receivers :
        /\ rctx[r].status = "err"
        /\ rctx[r].error = "SequenceMismatch"
        /\ rctx[r].accepted = << [index |-> 0, sequence |-> 0], [index |-> 0, sequence |-> 1],
                                 [index |-> 1, sequence |-> 0] >>
        /\ rctx[r].index = 2
        /\ rctx[r].sequence = 0

\* the content of the sender's file i as it sits on the sender's disk
Original(file) == <<Bytes(file.path, 0, file.size)>>

\* C5: when a receiver completes a transfer, every file it received holds the
\* bytes of the sender's file of the same position, in the same order
C5_Content ==
    \A r \in Receivers :
        rctx[r].status = "exit" =>
            /\ Len(rctx[r].files) <= Len(sctx.files)
            /\ \A i \in 1..Len(rctx[r].files) :
                   disk[r][rctx[r].files[i].handle] = Original(sctx.files[i])

\* a receiver completed the transfer of all the sender's files, the first of
\* which took more than one chunk
C5_Witness ==
    \E r \in Receivers :
        /\ rctx[r].status = "exit"
        /\ Len(rctx[r].files) = Len(sctx.files)
        /\ Len(sctx.files) > 1
        /\ sctx.files[1].size > MAX_CHUNK_SIZE
        /\ \A i \in 1..Len(sctx.files) :
               disk[r][sanitize(sctx.files[i].name)] = Original(sctx.files[i])

\* C11: an upload under a stored name returns 200 with the merged record and
\* changes only that record: an empty stored relay_room_id takes the incoming
\* relay_room_id, otherwise local_room_id takes the incoming local_room_id;
\* name, ip, the length of the list and the other advertisements stay
C11_Merge ==
    [][\A payload \in Payloads :
         (FindTransfer(transfers, payload.name) # -1 /\ UploadOf(payload))
            => LET i == FindTransfer(transfers, payload.name) + 1
                   old == transfers[i]
                   new == transfers'[i]
               IN /\ http'.status = OK
                  /\ http'.body = new
                  /\ Len(transfers') = Len(transfers)
                  /\ \A j \in 1..Len(transfers) : j # i => transfers'[j] = transfers[j]
                  /\ new.name = old.name
                  /\ new.ip = old.ip
                  /\ IF old.relay_room_id = Empty
                     THEN /\ new.relay_room_id = payload.relay_room_id
                          /\ new.local_room_id = old.local_room_id
                     ELSE /\ new.local_room_id = payload.local_room_id
                          /\ new.relay_room_id = old.relay_room_id]_vars

\* an upload from another address has been merged into the second of two
\* advertisements, taking the local id since the relay id was stored
C11_Witness ==
    /\ Len(transfers) = 2
    /\ http.op = "upload"
    /\ http.status = OK
    /\ http.payload.name = transfers[2].name
    /\ http.payload.ip # transfers[2].ip
    /\ http.payload.local_room_id # Empty
    /\ transfers[2].local_room_id = http.payload.local_room_id
    /\ transfers[2].relay_room_id # Empty
    /\ transfers[2].relay_room_id # http.payload.relay_room_id

\* the frames res queued are all that r put on its socket, before its end
Emits(r, out) ==
    inq'[r] = inq[r] \o out \o (IF rctx'[r].status = "run" THEN <<>> ELSE <<Eof>>)

\* C12: a Handshake whose signature is not the HMAC of its public key under
\* the receiver's own secret ends the receiver: no HandshakeResponse is sent,
\* no session key is stored, no file is created; the error is the signature
\* error
C12_BadSignature ==
    [][\A r \in Receivers :
         (/\ Receives(r)
          /\ Incoming(r).t = "Handshake"
          /\ Incoming(r).signature # Sign(rctx[r].hmac, Incoming(r).public_key))
            => /\ rctx'[r].status \notin {"init", "run", "exit"}
               /\ Emits(r, <<>>)
               /\ rctx'[r].shared_key = rctx[r].shared_key
               /\ disk' = disk
               /\ rctx[r].shared_key = NoKey =>
                      rctx'[r] = [rctx[r] EXCEPT !.status = "err",
                                                 !.error = "Invalid signature from the sender."]]_vars

\* a receiver without a key got a Handshake signed with another secret and
\* ended: it sent nothing after its Join, holds no key and no file
C12_Witness ==
    \E r \in Receivers :
        /\ rctx[r].status = "err"
        /\ rctx[r].error = "Invalid signature from the sender."
        /\ rctx[r].shared_key = NoKey
        /\ rctx[r].files = <<>>
        /\ DOMAIN disk[r] = {}
        /\ inq[r] = <<ReqJoin(SenderRoom), Eof>>

(***************************************************************************)
(* C13, C14: start_receiver                                                *)
(***************************************************************************)
\* receiver r holds every file of the sender, complete, and has ended with Exit
Completed(r) ==
    /\ rctx[r].status = "exit"
    /\ Len(rctx[r].files) = Len(sctx.files)
    /\ \A i \in 1..Len(sctx.files) :
           disk[r][rctx[r].files[i].handle] = Original(sctx.files[i])

LanFailed(r) == launch[r].lan \in {"failed", "timeout"}
RelayFailed(r) == launch[r].relay \in {"failed", "timeout"}

\* the LAN address is dialled before the relay, and the relay is dialled only
\* after the LAN dial failed or timed out
C13_Order ==
    /\ launch[Launched].relay # "none" => LanFailed(Launched)
    /\ launch[Launched].pc \in {"idle", "dial_lan"} =>
           rctx[Launched].status = "init" /\ inq[Launched] = <<>>

\* a failed LAN dial is followed by a relay dial
C13_FallsBack == LanFailed(Launched) ~> launch[Launched].relay # "none"

\* LAN dial failed, relay dial connected with the invite of the advertisement:
\* the receive protocol runs on the relay connection and the transfer completes
C13_Completes ==
    (/\ LanFailed(Launched)
     /\ launch[Launched].relay = "connected"
     /\ ValidInvite(launch[Launched].res.relay_room_id))
        ~> (Completed(Launched) /\ client_room_id[Launched] = NoRoom)

\* start_receiver has reported a dial failure at error level only if neither
\* dial connected
C13_SurfacedOnlyIfBoth ==
    (launch[Launched].pc = "done" /\ launch[Launched].errors # <<>>)
        => (LanFailed(Launched) /\ RelayFailed(Launched))

\* C13: the receiver dials the LAN address first and the relay if that dial
\* fails or times out; when the LAN dial fails and the relay dial connects the
\* receive protocol runs on the relay connection and the transfer completes;
\* a dial failure is reported only if both dials fail
C13_Fallback ==
    /\ []C13_Order
    /\ C13_FallsBack
    /\ C13_Completes
    /\ []C13_SurfacedOnlyIfBoth

\* the LAN dial failed, the relay dial connected, the transfer completed and
\* start_receiver has returned
C13_Witness ==
    /\ launch[Launched].pc = "done"
    /\ LanFailed(Launched)
    /\ launch[Launched].relay = "connected"
    /\ Completed(Launched)

\* the run in which the receiver found the advertisement and its dial of the
\* relay connected
HappyPath(r) ==
    /\ launch[r].relay = "connected"
    /\ ValidInvite(launch[r].res.relay_room_id)

Emitted(r) == SubSeq(inq'[r], Len(inq[r]) + 1, Len(inq'[r]))

IsProgress(frame) == frame.type = "binary" /\ frame.data[2].value.t = "Progress"

\* the Progress packets among them, in the order sent
Reported(r) ==
    LET frames == SelectSeq(Emitted(r), IsProgress)
    IN [k \in 1..Len(frames) |-> frames[k].data[2].value]

\* C15: with the sender of this repository on the other side, a receiver's
\* Progress packets carry the index of the file being received, which never
\* decreases; within one index the progress values never decrease (context
\* .progress is the last value reported for the index, 0 before the first);
\* the packet sent with the last chunk of a file reports 100 and is the last
\* for its index
C15_Progress ==
    [][\A r \in Receivers :
         Receives(r) =>
            /\ rctx'[r].index >= rctx[r].index
            /\ Len(Reported(r)) <= 1
            /\ \A k \in 1..Len(Reported(r)) :
                   /\ Reported(r)[k].index = rctx[r].index
                   /\ Reported(r)[k].progress >= rctx[r].progress
                   /\ Reported(r)[k].progress <= 100
                   /\ rctx'[r].index = rctx[r].index =>
                          rctx'[r].progress = Reported(r)[k].progress
            /\ (Reported(r) = <<>> /\ rctx'[r].index = rctx[r].index) =>
                   rctx'[r].progress = rctx[r].progress
            /\ rctx'[r].index # rctx[r].index =>
                   /\ rctx'[r].index = rctx[r].index + 1
                   /\ rctx'[r].progress = 0
                   /\ Len(Reported(r)) = 1
                   /\ Reported(r)[1].progress = 100]_vars

\* a receiver got two files, the first in two chunks (99, then 100), and has
\* reported 100 for each
C15_Witness ==
    \E r \in Receivers :
        /\ rctx[r].index = 2
        /\ Len(rctx[r].files) = 2
        /\ \A i \in 1..2 : rctx[r].files[i].progress = 100
        /\ Len(rctx[r].accepted) = 3

(***************************************************************************)
(* C16: the chunks of one file                                             *)
(***************************************************************************)
\* the Chunk packets the task has sent so far, in order (nothing else is
\* put on the sender's socket while the task runs alone)
Pumped == [k \in 1..Len(inq[SenderConn]) |-> inq[SenderConn][k].data[2].value]

RECURSIVE SumLen(_)
SumLen(chunks) ==
    IF chunks = <<>> THEN 0 ELSE ChunkLen(Head(chunks).chunk) + SumLen(Tail(chunks))

Ceil(a, b) == (a + b - 1) \div b

PumpDone == sctx.task.size = 0

\* C16: for a file of size s > 0 the chunk task sends ceil(s / 65535) chunks,
\* numbered 0, 1, ..., each of 1 to 65535 bytes, taken from the file front to
\* back, with lengths that sum to s; a file of exactly 65535 bytes goes out as
\* one chunk and a multiple of 65535 as full chunks only
C16_Chunks ==
    LET s == sctx.files[1].size
        n == Ceil(s, MAX_CHUNK_SIZE)
    IN /\ s > 0
       /\ Len(Pumped) <= n
       /\ \A k \in 1..Len(Pumped) :
              /\ Pumped[k].t = "Chunk"
              /\ Pumped[k].sequence = k - 1
              /\ ChunkLen(Pumped[k].chunk) \in 1..MAX_CHUNK_SIZE
              /\ Pumped[k].chunk.off = SumLen(SubSeq(Pumped, 1, k - 1))
       /\ SumLen(Pumped) = s - sctx.task.size
       /\ PumpDone =>
              /\ Len(Pumped) = n
              /\ SumLen(Pumped) = s
              /\ s = MAX_CHUNK_SIZE => Len(Pumped) = 1
              /\ s % MAX_CHUNK_SIZE = 0 =>
                     \A k \in 1..n : ChunkLen(Pumped[k].chunk) = MAX_CHUNK_SIZE

\* the task has sent a file of exactly 65535 bytes
C16_Witness ==
    /\ sctx.files[1].size = MAX_CHUNK_SIZE
    /\ sctx.task.index = 1
    /\ Len(Pumped) = 1
    /\ ChunkLen(Pumped[1].chunk) = MAX_CHUNK_SIZE

\* the task has sent a file of several full chunks and one byte more
C16_WitnessShort ==
    /\ sctx.files[1].size = MaxChunks * MAX_CHUNK_SIZE + 1
    /\ PumpDone
    /\ Len(Pumped) = MaxChunks + 1

(***************************************************************************)
(* C17: paths the sender refuses                                           *)
(***************************************************************************)
\* one of the paths the sender was given is a directory or an empty file
Unsendable ==
    \E i \in 1..Len(sctx.files) :
        /\ sctx.files[i].path \in DOMAIN SenderDisk
        /\ SenderDisk[sctx.files[i].path].is_dir \/ SenderDisk[sctx.files[i].path].len = 0

\* C17: a sender that was given a directory or a zero-length file never
\* starts the transfer: it returns before Create is sent, so its connection
\* carries nothing but its end, no room is created, no advertisement is
\* uploaded, and no Handshake, List or Chunk is sent
C17_NotStarted ==
    Unsendable =>
        /\ sctx.status \in {"init", "err"}
        /\ inq[SenderConn] \in {<<>>, <<Eof>>}
        /\ pending[SenderConn] = {}
        /\ wire[SenderConn] = <<>>
        /\ (conn[SenderConn] = "open") = (sctx.status = "init")
        /\ rooms = <<>>
        /\ client_room_id[SenderConn] = NoRoom
        /\ transfers = <<>>
        /\ http = [op |-> "none"]
        /\ sctx.task = NoTask /\ sctx.shared_key = NoKey

\* the sender was given a file with content and then an empty file, returned,
\* and the relay has seen its connection end
C17_Witness ==
    /\ Len(sctx.files) = 2
    /\ sctx.files[1].path = "/a.bin"
    /\ sctx.files[2].path = "/empty"
    /\ sctx.status = "err"
    /\ sctx.error = "Error: The file is empty and cannot be sent."
    /\ conn[SenderConn] = "gone"

(***************************************************************************)
(* C18, C19: what the members of a room see, in which order                *)
(***************************************************************************)
IsFrame(message) == message.type = "binary" /\ Len(message.data) = 4
Origin(message) == message.data[2]
JoinedBefore(message) == message.data[3]
Serial(message) == message.data[4]
IsJoinNotice(message) == message.type = "join" /\ message.size = NoSize

\* C18: the binary frames of one connection reach any one member of its room
\* in the order the connection sent them, whatever the other connections
\* send, join, leave or close in between
C18_Order ==
    \A m \in Conns : \A i, j \in 1..Len(wire[m]) :
        (/\ i < j
         /\ IsFrame(wire[m][i]) /\ IsFrame(wire[m][j])
         /\ Origin(wire[m][i]) = Origin(wire[m][j]))
            => Serial(wire[m][i]) < Serial(wire[m][j])

\* the creator got two frames of the other member and, between them, a frame
\* of its own
C18_Witness ==
    \E i, k, j \in 1..Len(wire[Creator]) :
        /\ i < k /\ k < j
        /\ IsFrame(wire[Creator][i]) /\ IsFrame(wire[Creator][k]) /\ IsFrame(wire[Creator][j])
        /\ Origin(wire[Creator][i]) = "c2" /\ Origin(wire[Creator][j]) = "c2"
        /\ Origin(wire[Creator][k]) = Creator

\* the join of c that the relay is still sending the packets of: the joins c
\* has seen answered, and the one whose answer is on its way
Joining(c) ==
    Joined(c) + (IF \E p \in pending[c] : p.to = c /\ p.msg.type = "join" THEN 1 ELSE 0)

\* C19: a member never sees a frame a newcomer sent after its join before it
\* sees the notice of that join: while the notice is still to be sent to
\* member m, m has got no frame of this stay of the newcomer, and whatever
\* frame of another connection the creator of the room has got, it got a
\* join notice before it
C19_JoinFirst ==
    /\ \A c \in Conns : \A m \in Conns \ {c} :
          (conn[c] = "open" /\ Send(m, RespJoin(NoSize)) \in pending[c])
             => \A k \in 1..Len(wire[m]) :
                    (IsFrame(wire[m][k]) /\ Origin(wire[m][k]) = c)
                       => JoinedBefore(wire[m][k]) < Joining(c)
    /\ \A j \in 1..Len(wire[Creator]) :
          (IsFrame(wire[Creator][j]) /\ Origin(wire[Creator][j]) # Creator)
             => \E i \in 1..(j - 1) : IsJoinNotice(wire[Creator][i])

\* a connection joined, left, joined again and sent a frame, and the creator
\* has got the two notices and then the frame
C19_Witness ==
    \E j \in 1..Len(wire[Creator]) :
        /\ IsFrame(wire[Creator][j])
        /\ Origin(wire[Creator][j]) # Creator
        /\ JoinedBefore(wire[Creator][j]) = 2
        /\ Cardinality({i \in 1..(j - 1) : IsJoinNotice(wire[Creator][i])}) = 2

(***************************************************************************)
(* C20: files that are in the download directory already                   *)
(***************************************************************************)
\* an entry of the list would land on a path that exists
Collides(r, list) ==
    \E k \in 1..Len(list.entries) : sanitize(list.entries[k].name) \in DOMAIN disk[r]

\* C20: a file that is in the download directory stays as it is, whatever
\* the receiver is sent; a List with an entry whose path exists ends the
\* receiver with the file-exists error and leaves every file that was there
\* untouched, and after that error nothing is written to any file
C20_NoOverwrite ==
    [][\A r \in Receivers :
         /\ \A q \in DOMAIN disk[r] :
                disk[r][q] = OldContent =>
                    (q \in DOMAIN disk'[r] /\ disk'[r][q] = OldContent)
         /\ (/\ Receives(r)
             /\ Incoming(r).t = "List"
             /\ rctx[r].shared_key # NoKey
             /\ Collides(r, Incoming(r)))
               => /\ rctx'[r].status = "err"
                  /\ rctx'[r].error = "FileExists"
                  /\ Emits(r, <<>>)
                  /\ \A q \in DOMAIN disk[r] : disk'[r][q] = disk[r][q]
                  /\ \A q \in DOMAIN disk'[r] \ DOMAIN disk[r] : disk'[r][q] = <<>>
         /\ rctx[r].error = "FileExists" => disk'[r] = disk[r]]_vars

\* b.bin was there; the List of a.bin and b.bin created a.bin, then failed on
\* b.bin, which still has its old content
C20_Witness ==
    /\ rctx[FedReceiver].status = "err"
    /\ rctx[FedReceiver].error = "FileExists"
    /\ DOMAIN disk[FedReceiver] = {"a.bin", "b.bin"}
    /\ disk[FedReceiver]["b.bin"] = OldContent
    /\ disk[FedReceiver]["a.bin"] = <<>>

(***************************************************************************)
(* C21: messages the relay discards                                        *)
(***************************************************************************)
\* connection c is a member of the room its client record names
IsMember(c) ==
    /\ client_room_id[c] # NoRoom
    /\ client_room_id[c] \in DOMAIN rooms
    /\ Position(rooms[client_room_id[c]].senders, c) # -1

\* text that is no create, join or leave; an empty binary frame; a binary
\* frame of a connection outside any room; a binary frame whose address byte
\* is neither the index of an occupant nor 255
Discarded(c, message) ==
    \/ message.type = "junk"
    \/ /\ message.type = "binary"
       /\ \/ message.data = <<>>
          \/ ~IsMember(c)
          \/ /\ message.data[1] # BROADCAST
             /\ message.data[1] \notin 0..(Len(rooms[client_room_id[c]].senders) - 1)

\* C21: the relay drops such a message without a trace: no room changes, no
\* connection is closed, nothing is sent to anybody, and the connection's
\* read loop is free to take its next message
C21_Discard ==
    [][\A c \in Conns :
         (Handles(c) /\ Discarded(c, Head(inq[c])))
            => /\ rooms' = rooms
               /\ client_room_id' = client_room_id
               /\ conn' = conn
               /\ wire' = wire
               /\ pending' = pending
               /\ pending'[c] = {}]_vars

\* a member of a room with one occupant had a frame for index 1 dropped
C21_Witness ==
    \E c \in Conns :
        /\ handled.conn = c
        /\ handled.message.type = "binary"
        /\ handled.message.data # <<>>
        /\ handled.message.data[1] = 1
        /\ IsMember(c)
        /\ Len(rooms[client_room_id[c]].senders) = 1
        /\ pending[c] = {}
        /\ conn[c] = "open"
        /\ \A m \in Conns : \A k \in 1..Len(wire[m]) : wire[m][k].type # "binary"

(***************************************************************************)
(* start_sender with its two paths, one receiver started by                *)
(* start_receiver, and the relay                                           *)
(***************************************************************************)
RelayPath == boot.relay_thread = "running" /\ SenderStart

NextSupervised ==
    \/ start_sender \/ connect_to_server \/ LocalPump \/ Signal \/ start_sender_return
    \/ RelayPath \/ SenderRecv \/ PumpChunk \/ PumpNext \/ PumpOrphan
    \/ RelayStep \/ RelayDeliver
    \/ ReceiverLookup \/ ReceiverDialLan \/ ReceiverDialRelay \/ ReceiverStep \/ ReceiverReport

SpecSupervised == Init /\ [][NextSupervised]_vars

\* the three tasks start_sender spawned are over or aborted
Stopped(thread) == thread \in {"finished", "aborted"}
Supervised == /\ Stopped(boot.local_ws_thread)
              /\ Stopped(boot.relay_thread)
              /\ Stopped(boot.local_thread)

\* C22, the part about the tasks start_sender holds: it returns only after a
\* path's sender::start has returned, and then the embedded relay task and
\* both path tasks are over or aborted
C22_Aborted == boot.pc = "returned" => Supervised

\* C22: once the path over the remote relay has completed the transfer (Exit)
\* and start_sender has returned, the other path's task and the embedded
\* relay task are aborted and no task of the sender is running, the chunk
\* tasks of both paths included
C22_NoTask ==
    (boot.pc = "returned" /\ sctx.status = "exit") =>
        /\ Supervised
        /\ ~TaskAlive(sctx.task)
        /\ boot.local_task # "running"

\* the relay path completed the transfer (Progress 100 of the last file, Exit)
\* and start_sender returned while the chunk task of that path is still in
\* the sleep(DELAY) that follows its last file
C22_Leaked ==
    /\ boot.pc = "returned"
    /\ sctx.status = "exit"
    /\ Supervised
    /\ TaskAlive(sctx.task)

\* the local path completed and start_sender returned: the relay path was
\* aborted in the middle of its transfer and its chunk task lives on
C22_LoserLeaked ==
    /\ boot.pc = "returned"
    /\ boot.local_thread = "finished"
    /\ boot.relay_thread = "aborted"
    /\ TaskAlive(sctx.task)
    /\ sctx.task.size > 0

(***************************************************************************)
(* C23: leave from the relay at the receiver                               *)
(***************************************************************************)
Incomplete(r) == \E i \in 1..Len(rctx[r].files) : rctx[r].files[i].progress < 100
GetsLeave(r) == Receives(r) /\ Head(wire[r]).type = "leave"

\* C23, what on_leave_room and start decide: with a file below 100 the
\* receiver ends with the interruption error and queues nothing; with every
\* file at 100 it ends with Exit and Leave is handed to its channel
C23_Status ==
    [][\A r \in Receivers :
         GetsLeave(r) =>
            /\ Incomplete(r) =>
                  /\ rctx'[r].status = "err"
                  /\ rctx'[r].error = "Transfer was interrupted because the host left the room."
                  /\ LeftInChannel(rctx'[r].status) = <<>>
                  /\ Emits(r, <<>>)
            /\ ~Incomplete(r) =>
                  /\ rctx'[r].status = "exit"
                  /\ LeftInChannel(rctx'[r].status) = <<ReqLeave>>
            /\ disk'[r] = disk[r]]_vars

\* C23: a receiver that gets leave while a file is incomplete ends with the
\* interruption error and sends no leave; one whose files are all complete
\* exits cleanly and sends leave to the relay
C23_Leave ==
    [][\A r \in Receivers :
         GetsLeave(r) =>
            /\ Incomplete(r) =>
                  /\ rctx'[r].status = "err"
                  /\ Emits(r, <<>>)
            /\ ~Incomplete(r) =>
                  /\ rctx'[r].status = "exit"
                  /\ Emits(r, <<ReqLeave>>)]_vars

\* the receiver got leave in the middle of the first file
C23_Interrupted ==
    /\ rctx[FedReceiver].status = "err"
    /\ rctx[FedReceiver].error = "Transfer was interrupted because the host left the room."
    /\ Len(rctx[FedReceiver].files) = 2
    /\ rctx[FedReceiver].files[1].progress \in 1..99

\* the receiver got leave with both files complete: its socket carries the
\* Join, the HandshakeResponse and the Progress packets, no Leave, and ends
C23_CleanExit ==
    /\ rctx[FedReceiver].status = "exit"
    /\ Len(rctx[FedReceiver].files) = 2
    /\ \A i \in 1..2 : rctx[FedReceiver].files[i].progress = 100
    /\ \A k \in 1..Len(inq[FedReceiver]) : inq[FedReceiver][k] # ReqLeave

(***************************************************************************)
(* A sender fed by a peer that holds the invite but follows no protocol:   *)
(* notices of the relay, HandshakeResponse and Progress packets in any     *)
(* order, in cleartext or under a session key                              *)
(***************************************************************************)
PeerKey(n) == diffie_hellman(SenderSecret(n), public_key(ReceiverSecret(FedReceiver)))
SenderFrames ==
    {RespJoin(NoSize), RespJoin(1), RespLeave(1)}
    \cup {send_packet(RECEIVER_DESTINATION,
                      HandshakeResponse(public_key(ReceiverSecret(FedReceiver)),
                                        Sign(h, public_key(ReceiverSecret(FedReceiver))))) :
              h \in Hmacs}
    \cup {send_encrypted_packet(PeerKey(n), RECEIVER_DESTINATION,
                                HandshakeResponse(public_key(ReceiverSecret("c3")),
                                                  Sign(InviteHmac, public_key(ReceiverSecret("c3"))))) :
              n \in 1..2}
    \cup {send_encrypted_packet(PeerKey(n), RECEIVER_DESTINATION, Progress(index, progress)) :
              n \in 1..2, index \in 0..Len(SenderFiles), progress \in {50, 100}}

SenderFeed ==
    /\ ops < MaxSenderFeed
    /\ sctx.status = "run"
    /\ Len(wire[SenderConn]) < MaxInq
    /\ \E frame \in SenderFrames : wire' = [wire EXCEPT ![SenderConn] = Append(@, frame)]
    /\ ops' = ops + 1
    /\ UNCHANGED <<rooms, client_room_id, pending, inq, conn, handled, regVars, peerVars>>

NextSender == SenderFeed \/ SenderRecv \/ PumpChunk \/ PumpNext \/ PumpAbort

SpecSender == InitAdvertised /\ [][NextSender]_vars

(***************************************************************************)
(* C24: a second handshake                                                 *)
(***************************************************************************)
\* the sender handles its first unread message
SenderReceives ==
    /\ sctx.status = "run"
    /\ wire[SenderConn] # <<>>
    /\ Len(wire'[SenderConn]) < Len(wire[SenderConn])
SenderIncoming ==
    IF Head(wire[SenderConn]).type = "binary"
    THEN Decode(sctx.shared_key, Head(wire[SenderConn]).data)
    ELSE Undecodable
SenderEmitted == SubSeq(inq'[SenderConn], Len(inq[SenderConn]) + 1, Len(inq'[SenderConn]))

\* C24, receiver: a Handshake that on_handshake gets while a session key is
\* held ends the receiver with the already-handshaken error; nothing is sent,
\* so no HandshakeResponse, and the key stays the one it held
C24_Receiver ==
    [][\A r \in Receivers :
         (Receives(r) /\ Incoming(r).t = "Handshake" /\ rctx[r].shared_key # NoKey)
            => /\ rctx'[r].status = "err"
               /\ rctx'[r].error = "Already performed handshake."
               /\ Emits(r, <<>>)
               /\ rctx'[r].shared_key = rctx[r].shared_key]_vars

\* C24, sender: a HandshakeResponse that on_handshake gets while a session
\* key is held ends the sender with the already-handshaken error; nothing is
\* sent, so no Handshake and no List, no chunk task is started and the key
\* stays the one it held
C24_Sender ==
    [][(SenderReceives /\ SenderIncoming.t = "HandshakeResponse" /\ sctx.shared_key # NoKey)
          => /\ sctx'.status = "err"
             /\ sctx'.error = "Already performed handshake."
             /\ SenderEmitted = <<Eof>>
             /\ sctx'.shared_key = sctx.shared_key
             /\ sctx'.task = sctx.task]_vars

\* a receiver was ended by a second Handshake, signed and under its session
\* key, after it had answered the first
C24_Witness ==
    /\ rctx[FedReceiver].status = "err"
    /\ rctx[FedReceiver].error = "Already performed handshake."
    /\ rctx[FedReceiver].shared_key = FedKey
    /\ Len(SelectSeq(inq[FedReceiver],
                     LAMBDA f : f.type = "binary" /\ f.data[2].value.t = "HandshakeResponse")) = 1

\* the sender was ended by a second HandshakeResponse under its session key
\* after it had sent the List
C24_WitnessSender ==
    /\ sctx.status = "err"
    /\ sctx.error = "Already performed handshake."
    /\ sctx.shared_key = PeerKey(1)
    /\ Len(SelectSeq(inq[SenderConn],
                     LAMBDA f : f.type = "binary" /\ f.data[2].value.t = "List")) = 1

\* one peer of this repository against a peer that follows no protocol: the
\* run is that of a fed receiver or that of a fed sender, which are programs
\* on different machines
FedBegin == ops = 0 /\ ReceiverBegin
FedSender == (\A r \in Receivers : rctx[r].status = "init") /\ SenderFeed

NextFed ==
    \/ FedBegin \/ Feed \/ ReceiverStep
    \/ FedSender \/ SenderRecv \/ PumpChunk \/ PumpNext \/ PumpAbort

SpecFed == InitAdvertised /\ [][NextFed]_vars

\* C24: a Handshake handled by a receiver, or a HandshakeResponse handled by
\* a sender, that already holds a session key ends that peer with the
\* already-handshaken error; the peer sends no handshake message (nothing at
\* all) in that step and keeps the session key it held
C24_AlreadyHandshaken == C24_Receiver /\ C24_Sender

(***************************************************************************)
(* C25: List and Chunk before the handshake                                *)
(***************************************************************************)
\* C25: a Chunk or a List that the receiver handles while it holds no session
\* key ends it with the no-shared-key error of that packet; nothing is sent,
\* no file is created or written, and the files, the index, the sequence
\* number and the byte and progress counters are as before
C25_NoKey ==
    [][\A r \in Receivers :
         (Receives(r) /\ Incoming(r).t \in {"Chunk", "List"} /\ rctx[r].shared_key = NoKey)
            => /\ rctx'[r].status = "err"
               /\ rctx'[r].error = IF Incoming(r).t = "Chunk"
                                   THEN "Invalid chunk packet: no shared key established"
                                   ELSE "Invalid list packet: no shared key established"
               /\ Emits(r, <<>>)
               /\ disk'[r] = disk[r]
               /\ rctx'[r].files = rctx[r].files
               /\ rctx'[r].index = rctx[r].index
               /\ rctx'[r].sequence = rctx[r].sequence
               /\ rctx'[r].length = rctx[r].length
               /\ rctx'[r].progress = rctx[r].progress
               /\ rctx'[r].shared_key = NoKey]_vars

\* a receiver that had joined was ended by a cleartext Chunk before any
\* handshake: it holds no key, no file, and has sent its Join only
C25_Witness ==
    /\ rctx[FedReceiver].status = "err"
    /\ rctx[FedReceiver].error = "Invalid chunk packet: no shared key established"
    /\ rctx[FedReceiver].shared_key = NoKey
    /\ DOMAIN disk[FedReceiver] = {}
    /\ inq[FedReceiver] = <<ReqJoin(SenderRoom), Eof>>

\* the same for a cleartext List
C25_WitnessList ==
    /\ rctx[FedReceiver].status = "err"
    /\ rctx[FedReceiver].error = "Invalid list packet: no shared key established"
    /\ rctx[FedReceiver].files = <<>>
    /\ DOMAIN disk[FedReceiver] = {}

(***************************************************************************)
(* C26: the notices of a join                                              *)
(***************************************************************************)
\* the relay handles a join of c that succeeds: c is in no room, the room
\* exists and is not full
JoinsRoom(c, id) ==
    /\ Handles(c)
    /\ Head(inq[c]) = ReqJoin(id)
    /\ ~InAnyRoom(c)
    /\ id \in DOMAIN rooms
    /\ ~RoomIsFull(rooms[id])

\* C26: a successful join queues exactly one Join message for each member of
\* the room as it is after the join and for nobody else: the newcomer's with
\* size = members - 1, the others' without size; nothing else is sent in
\* that step
C26_JoinNotices ==
    [][\A c \in Conns : \A id \in RoomIds :
         JoinsRoom(c, id) =>
            LET members == rooms'[id].senders IN
            /\ members = Append(rooms[id].senders, c)
            /\ \A m \in Range(members) :
                   Cardinality({p \in pending'[c] : p.to = m}) = 1
            /\ \A p \in pending'[c] :
                   /\ p.to \in Range(members)
                   /\ p.msg.type = "join"
                   /\ p.to = c => p.msg = RespJoin(Len(members) - 1)
                   /\ p.to # c => p.msg = RespJoin(NoSize)
            /\ \A d \in Conns \ {c} : pending'[d] = pending[d]
            /\ wire' = wire]_vars

\* a second connection has just joined a room: two notices are queued, one
\* for it with size 1 and one for the first member without size
C26_Witness ==
    \E c \in Conns : \E id \in DOMAIN rooms :
        /\ handled.conn = c
        /\ handled.message = ReqJoin(id)
        /\ Len(rooms[id].senders) = 2
        /\ rooms[id].senders[2] = c
        /\ pending[c] = {Send(c, RespJoin(1)), Send(rooms[id].senders[1], RespJoin(NoSize))}

(***************************************************************************)
(* C27: leaving a room                                                     *)
(***************************************************************************)
\* the relay handles a leave message of c or the end of c's connection
\* while c is a member of its room
LeavesRoom(c) ==
    /\ Handles(c)
    /\ Head(inq[c]).type \in {"leave", "close", "eof"}
    /\ IsMember(c)

\* C27: when a member leaves, by message or by closing, exactly the members
\* that remain get leave{index} with the index the leaver had before it was
\* removed; the leaver's record has no room, the others keep their order, and
\* a room left without members is removed from the registry
C27_Leave ==
    [][\A c \in Conns :
         LeavesRoom(c) =>
            LET id == client_room_id[c]
                i == Position(rooms[id].senders, c)
                rest == Remove(rooms[id].senders, i)
            IN /\ pending'[c] = {Send(m, RespLeave(i)) : m \in Range(rest)}
               /\ c \notin Range(rest)
               /\ client_room_id'[c] = NoRoom
               /\ \A d \in Conns \ {c} : /\ client_room_id'[d] = client_room_id[d]
                                         /\ pending'[d] = pending[d]
               /\ IF rest = <<>>
                  THEN id \notin DOMAIN rooms'
                  ELSE id \in DOMAIN rooms' /\ rooms'[id].senders = rest
               /\ \A other \in DOMAIN rooms \ {id} :
                      other \in DOMAIN rooms' /\ rooms'[other] = rooms[other]]_vars

\* C27: the registry never holds a room without members
C27_NoEmptyRoom == \A id \in DOMAIN rooms : rooms[id].senders # <<>>

\* the first member of a room of two has just left: the other one, now at
\* index 0, is due leave{index: 0}, and the room is still registered
C27_Witness ==
    \E c \in Conns : \E id \in DOMAIN rooms : \E m \in Conns \ {c} :
        /\ handled.conn = c
        /\ handled.message.type \in {"leave", "eof"}
        /\ client_room_id[c] = NoRoom
        /\ rooms[id].senders = <<m>>
        /\ pending[c] = {Send(m, RespLeave(0))}

\* the only member of a room has left and the room is gone
C27_WitnessLast ==
    \E c \in Conns :
        /\ handled.conn = c
        /\ handled.message.type \in {"leave", "eof"}
        /\ client_room_id[c] = NoRoom
        /\ rooms = <<>>
        /\ pending[c] = {}
        /\ \E d \in Conns : \E k \in 1..Len(wire[d]) : wire[d][k].type = "create"

\* C27: both together, the step of leaving and the registry without empty
\* rooms
C27_LeaveRoom == C27_Leave /\ []C27_NoEmptyRoom

(***************************************************************************)
(* C28: forwarded frames                                                   *)
(***************************************************************************)
IsBinary(message) == message.type = "binary"

\* C28: the frames the relay queues when it handles a binary frame of c carry
\* c's index in its room in place of the address byte and the body as it
\* came, and go to members of c's room only: to the member at the address
\* byte when that is an occupant's index, to every member but c when it is
\* 255; no other handler queues a binary frame, and a binary frame reaches a
\* connection only as one of the queued sends
C28_Forward ==
    [][/\ \A c \in Conns :
            Handles(c) =>
               LET message == Head(inq[c])
                   frames == {p \in pending'[c] : IsBinary(p.msg)}
               IN IF IsBinary(message) /\ frames # {}
                  THEN LET senders == rooms[client_room_id[c]].senders
                           destination == message.data[1]
                       IN /\ IsMember(c)
                          /\ rooms' = rooms
                          /\ frames = pending'[c]
                          /\ \A p \in frames :
                                 /\ Len(p.msg.data) = Len(message.data)
                                 /\ p.msg.data[1] = Position(senders, c)
                                 /\ Tail(p.msg.data) = Tail(message.data)
                                 /\ p.to \in Range(senders)
                          /\ {p.to : p \in frames} =
                                 IF destination \in 0..(Len(senders) - 1)
                                 THEN {senders[destination + 1]}
                                 ELSE Range(senders) \ {c}
                          /\ destination \in 0..(Len(senders) - 1) \/ destination = BROADCAST
                  ELSE frames = {}
       /\ \A m \in Conns :
            (Len(wire'[m]) > Len(wire[m]) /\ IsBinary(wire'[m][Len(wire'[m])]))
               => \E c \in Conns :
                     /\ Send(m, wire'[m][Len(wire'[m])]) \in pending[c]
                     /\ pending'[c] = pending[c] \ {Send(m, wire'[m][Len(wire'[m])])}
                     /\ wire'[m] = Append(wire[m], wire'[m][Len(wire'[m])])]_vars

\* the second member of a room broadcast a frame and the first member got it
\* with the address byte 1, the sender's index
C28_Witness ==
    \E c \in Conns : \E m \in Conns \ {c} : \E id \in DOMAIN rooms :
        /\ rooms[id].senders = <<m, c>>
        /\ handled.conn = c
        /\ handled.message = Binary(<<BROADCAST, "x">>)
        /\ wire[m] # <<>>
        /\ wire[m][Len(wire[m])] = Binary(<<1, "x">>)
        /\ \A k \in 1..Len(wire[c]) : ~IsBinary(wire[c][k])

\* the first member sent a frame to index 1 and the second member got it with
\* the address byte 0
C28_WitnessUnicast ==
    \E c \in Conns : \E m \in Conns \ {c} : \E id \in DOMAIN rooms :
        /\ rooms[id].senders = <<c, m>>
        /\ handled.conn = c
        /\ handled.message = Binary(<<1, "x">>)
        /\ wire[m] # <<>>
        /\ wire[m][Len(wire[m])] = Binary(<<0, "x">>)

(***************************************************************************)
(* C29: the order of the sender's frames                                   *)
(***************************************************************************)
\* the protocol frames the sender puts on its connection in a step
SenderSent ==
    IF Len(inq'[SenderConn]) > Len(inq[SenderConn])
    THEN SelectSeq(SubSeq(inq'[SenderConn], Len(inq[SenderConn]) + 1, Len(inq'[SenderConn])),
                   IsBinary)
    ELSE <<>>
Kind(frame) == frame.data[2].value.t
KeyOf(frame) == frame.data[2].enc

\* C29, the Handshake: sent in cleartext, alone, and only in the step that
\* handles a join without size
C29_Handshake ==
    [][\A k \in 1..Len(SenderSent) :
         Kind(SenderSent[k]) = "Handshake" =>
            /\ KeyOf(SenderSent[k]) = NoKey
            /\ Len(SenderSent) = 1
            /\ SenderReceives
            /\ Head(wire[SenderConn]) = RespJoin(NoSize)]_vars

\* C29, the List: sent alone in the step that handles a HandshakeResponse
\* with a valid signature while no key is held, under the key stored in that
\* step, which also starts the chunk task at the first byte of the first file
C29_List ==
    [][\A k \in 1..Len(SenderSent) :
         Kind(SenderSent[k]) = "List" =>
            /\ Len(SenderSent) = 1
            /\ SenderReceives
            /\ SenderIncoming.t = "HandshakeResponse"
            /\ Verify(sctx.hmac, SenderIncoming.public_key, SenderIncoming.signature)
            /\ sctx.shared_key = NoKey
            /\ sctx'.shared_key = diffie_hellman(sctx.key, SenderIncoming.public_key)
            /\ sctx'.shared_key # NoKey
            /\ KeyOf(SenderSent[k]) = sctx'.shared_key
            /\ sctx'.task = SpawnChunks(sctx'.shared_key, sctx.files)]_vars

\* C29, the Chunks: a Chunk comes from a chunk task, the running one or the
\* one just aborted, which exists only since a List under the same key; it is
\* encrypted under that key, is the next piece of the file the task is at,
\* and a task never goes back to an earlier file
C29_Chunks ==
    [][/\ \A k \in 1..Len(SenderSent) :
            Kind(SenderSent[k]) = "Chunk" =>
               /\ Len(SenderSent) = 1
               /\ ~SenderReceives
               /\ \E task \in {sctx.task, sctx.stale} :
                     /\ task # NoTask
                     /\ task.shared_key # NoKey
                     /\ SenderSent[k] = NextChunk(sctx.files, task)
       /\ (sctx.task # NoTask /\ sctx'.task # NoTask /\ sctx'.task # sctx.task) =>
             /\ sctx'.task.shared_key = sctx.task.shared_key
             /\ \/ sctx'.task.index = sctx.task.index
                      /\ sctx'.task.sequence = sctx.task.sequence + 1
                \/ sctx'.task.index = sctx.task.index + 1 /\ sctx.task.size = 0]_vars

\* C29, the key: whatever the sender sends while it holds a session key is
\* encrypted under that key
C29_Encrypted ==
    [][\A k \in 1..Len(SenderSent) :
         sctx.shared_key # NoKey => KeyOf(SenderSent[k]) = sctx.shared_key]_vars

\* C29: all of it
C29_Order == C29_Handshake /\ C29_List /\ C29_Chunks /\ C29_Encrypted

\* the sender holds the session key of its first receiver and the last frame
\* it put on its connection is a cleartext Handshake: the join notice of the
\* second receiver came before the leave notice of the first
C29_CleartextUnderKey ==
    /\ sctx.status = "run"
    /\ sctx.shared_key # NoKey
    /\ inq[SenderConn] # <<>>
    /\ LET last == inq[SenderConn][Len(inq[SenderConn])] IN
          /\ IsBinary(last)
          /\ Kind(last) = "Handshake"
          /\ KeyOf(last) = NoKey

\* a chunk of the aborted task, under the key of the session that is over,
\* is the last frame on the connection while the sender holds the next key
C29_StaleChunk ==
    /\ sctx.status = "run"
    /\ sctx.shared_key # NoKey
    /\ inq[SenderConn] # <<>>
    /\ LET last == inq[SenderConn][Len(inq[SenderConn])] IN
          /\ IsBinary(last)
          /\ Kind(last) = "Chunk"
          /\ KeyOf(last) # sctx.shared_key

(***************************************************************************)
(* C30: the sender's clean exit                                            *)
(***************************************************************************)
IsLast(progress) == progress.progress = 100 /\ progress.index = Len(sctx.files) - 1
GetsProgress == SenderReceives /\ SenderIncoming.t = "Progress"

\* C30, the only way out: sender::start ends with Status::Exit only in the
\* step that handles a Progress with progress = 100 for the last file
C30_ExitOnly ==
    [][(sctx.status # "exit" /\ sctx'.status = "exit") => (GetsProgress /\ IsLast(SenderIncoming))]_vars

\* C30, a Progress for a file of the list that is not the last 100 leaves
\* the sender running, with nothing sent and its key and chunk task as before
C30_Continues ==
    [][(GetsProgress /\ ~IsLast(SenderIncoming) /\ SenderIncoming.index < Len(sctx.files))
          => /\ sctx'.status = "run"
             /\ SenderEmitted = <<>>
             /\ sctx'.shared_key = sctx.shared_key
             /\ sctx'.task = sctx.task]_vars

\* C30 as worded: any Progress that is not the last 100 leaves the sender
\* running
C30_AnyOther ==
    [][(GetsProgress /\ ~IsLast(SenderIncoming)) => sctx'.status = "run"]_vars

\* C30, the receiver's side: when the sender exits, the receiver it shares
\* its key with holds every file of the list with all its bytes
Written(r) ==
    \A i \in 1..Len(sctx.files) :
        /\ sanitize(sctx.files[i].name) \in DOMAIN disk[r]
        /\ disk[r][sanitize(sctx.files[i].name)] = Original(sctx.files[i])
C30_Written ==
    sctx.status = "exit" =>
        \E r \in Receivers : rctx[r].shared_key = sctx.shared_key /\ Written(r)

\* C30, the exit as the relay sees it: the step that ends the sender with
\* Exit puts Leave on its connection before the connection ends
C30_SendsLeave ==
    [][(sctx.status # "exit" /\ sctx'.status = "exit") => SenderEmitted = <<ReqLeave, Eof>>]_vars

\* C30: the sender exits cleanly, sending leave, only on the Progress 100 of
\* the last file, a Progress for another file or below 100 leaves it running,
\* and with the receiver of this repository the exit comes only after the
\* receiver has written every byte of every file
C30_Exit == C30_ExitOnly /\ C30_Continues /\ C30_SendsLeave /\ []C30_Written

\* the sender has exited after the last Progress: Leave is in its channel,
\* its connection carried no Leave, and a receiver holds both files complete
C30_Exited ==
    /\ sctx.status = "exit"
    /\ LeftInChannel(sctx.status) = <<ReqLeave>>
    /\ \E r \in Receivers : Written(r)
    /\ \A k \in 1..Len(inq[SenderConn]) : inq[SenderConn][k] # ReqLeave
    /\ handled.conn # SenderConn \/ handled.message # ReqLeave

(***************************************************************************)
(* C31: the sender after a leave                                           *)
(***************************************************************************)
SenderGets(type) == SenderReceives /\ Head(wire[SenderConn]).type = type

C32_Bounds ==
    \A r \in Receivers :
        /\ \A i \in 1..Len(rctx[r].files) : rctx[r].files[i].size > 0
        /\ rctx[r].index < Len(rctx[r].files) =>
               rctx[r].length <= rctx[r].files[rctx[r].index + 1].size

\* a receiver has written more bytes to its first file than the List
\* announced, and goes on
C32_Overrun ==
    /\ rctx[FedReceiver].status = "run"
    /\ rctx[FedReceiver].index = 0
    /\ rctx[FedReceiver].files # <<>>
    /\ rctx[FedReceiver].files[1].size > 0
    /\ rctx[FedReceiver].length > rctx[FedReceiver].files[1].size
    /\ rctx[FedReceiver].files[1].progress > 100

\* a receiver has accepted a List with a file of size 0 and created the file
C32_EmptyListed ==
    /\ rctx[FedReceiver].status = "run"
    /\ rctx[FedReceiver].files # <<>>
    /\ rctx[FedReceiver].files[1].size = 0
    /\ "empty" \in DOMAIN disk[FedReceiver]

(***************************************************************************)
(* C33: create of an existing room, join of a missing room                 *)
(***************************************************************************)
ErrorsOfLobby ==
    {RespError("A room with that identifier already exists."),
     RespError("The room does not exist.")}

\* the relay handles, for a connection in no room, a create that names an
\* existing room or a join that names no room
Refused(c) ==
    /\ Handles(c)
    /\ ~InAnyRoom(c)
    /\ LET message == Head(inq[c]) IN
         \/ message.type = "create" /\ message.id \in DOMAIN rooms
         \/ message.type = "join" /\ message.id \notin DOMAIN rooms

RefusedWith(c) ==
    IF Head(inq[c]).type = "create"
    THEN RespError("A room with that identifier already exists.")
    ELSE RespError("The room does not exist.")

\* the handler queues the one error for the requester and changes neither
\* the rooms, their member lists included, nor any connection's room
C33_Step ==
    \A c \in Conns :
        Refused(c)
            => /\ pending'[c] = {Send(c, RefusedWith(c))}
               /\ rooms' = rooms
               /\ client_room_id' = client_room_id
               /\ ~InAnyRoom(c)'
               /\ wire' = wire
               /\ \A d \in Conns \ {c} : pending'[d] = pending[d]

\* the reply, and nothing else, then reaches the requester
C33_Delivery ==
    \A c \in Conns : \A msg \in ErrorsOfLobby :
        (/\ pending[c] = {Send(c, msg)}
         /\ pending'[c] # pending[c])
            => /\ pending'[c] = {}
               /\ rooms' = rooms
               /\ \A d \in Conns \ {c} : wire'[d] = wire[d]
               /\ wire'[c] = IF conn[c] = "open" THEN Append(wire[c], msg) ELSE wire[c]

\* C33: a create whose id already maps to a room is answered with
\* error{"A room with that identifier already exists."}, a join whose id maps
\* to no room with error{"The room does not exist."}; the reply goes to the
\* requester alone, the requester stays in no room and the registry, the
\* existing room's member list included, is unchanged
C33_Refused == [][C33_Step /\ C33_Delivery]_vars

\* a create for the room another connection holds has been refused: the
\* requester has the error and is in no room, the room has its member
C33_Witness ==
    \E c \in Conns : \E id \in DOMAIN rooms :
        /\ handled = [conn |-> c, message |-> ReqCreate(id)]
        /\ rooms[id].senders # <<>>
        /\ c \notin Range(rooms[id].senders)
        /\ ~InAnyRoom(c)
        /\ pending[c] = {}
        /\ wire[c] = <<RespError("A room with that identifier already exists.")>>

\* a join for a room that does not exist has been refused
C33_WitnessJoin ==
    \E c \in Conns : \E id \in Uuids \cup RoomIds :
        /\ handled = [conn |-> c, message |-> ReqJoin(id)]
        /\ id \notin DOMAIN rooms
        /\ ~InAnyRoom(c)
        /\ pending[c] = {}
        /\ wire[c] = <<RespError("The room does not exist.")>>

(***************************************************************************)
(* C34: the order of the notices of a leave and a later join               *)
(***************************************************************************)
\* the send of a notice to member a that the task of connection c awaits
Awaits(c, a, type) == \E p \in pending[c] : p.to = a /\ p.msg.type = type

\* the join notice the task of c queued for a goes through a's sink
JoinNoticeReaches(c, a) ==
    /\ Send(a, RespJoin(NoSize)) \in pending[c]
    /\ pending'[c] = pending[c] \ {Send(a, RespJoin(NoSize))}
    /\ wire'[a] = Append(wire[a], RespJoin(NoSize))

\* C34: a member observes the notices in the order the relay applied the
\* transitions to its room. A room holds 2 members, so the join of c to the
\* room of a was applied after the leave of every b that still awaits the send
\* of a leave notice to a: when the join notice of c reaches a, no leave
\* notice for a is still waiting in the task of another connection
C34_Order ==
    [][\A a \in Conns : \A c \in Conns \ {a} : \A b \in Conns \ {a, c} :
         JoinNoticeReaches(c, a) => ~Awaits(b, a, "leave")]_vars

\* b left the room of a, c joined it afterwards; a has the join notice for c
\* on its socket while the leave notice for b has not been sent yet
C34_JoinFirst ==
    \E a \in Conns : \E c \in Conns \ {a} : \E b \in Conns \ {a, c} : \E id \in DOMAIN rooms :
        /\ rooms[id].senders = <<a, c>>
        /\ client_room_id[b] = NoRoom
        /\ pending[b] = {Send(a, RespLeave(1))}
        /\ wire[a] # <<>>
        /\ wire[a][Len(wire[a])] = RespJoin(NoSize)
        /\ \A k \in 1..Len(wire[a]) : wire[a][k].type # "leave"
        /\ Cardinality({k \in 1..Len(wire[a]) : wire[a][k] = RespJoin(NoSize)}) = 2

(***************************************************************************)
(* C35: frames of a session that is over                                   *)
(***************************************************************************)
\* receiver r reads a binary frame
GetsFrame(r) == Receives(r) /\ IsBinary(Head(wire[r]))

\* every encrypted frame a receiver reads is under the key the receiver holds
C35_OwnKey ==
    [][\A r \in Receivers :
         (GetsFrame(r) /\ KeyOf(Head(wire[r])) # NoKey)
            => KeyOf(Head(wire[r])) = rctx[r].shared_key]_vars

\* the first binary frame a receiver reads, the one it reads while it holds
\* no key, is a cleartext Handshake
C35_First ==
    [][\A r \in Receivers :
         (GetsFrame(r) /\ rctx[r].shared_key = NoKey)
            => /\ Kind(Head(wire[r])) = "Handshake"
               /\ KeyOf(Head(wire[r])) = NoKey]_vars

\* C35: a receiver never reads a binary frame encrypted under a session key
\* it does not hold; no List or Chunk of the session with a receiver that has
\* left, the frames still queued on the sender's connection included, is
\* delivered to the receiver that joins afterwards, whose first binary frame
\* is a cleartext Handshake
C35_NoStaleFrame == C35_OwnKey /\ C35_First

\* a receiver that holds no key yet has, as the next frame on its socket, a
\* List or a Chunk under the key of the session with the receiver that left
C35_Stale ==
    \E r \in Receivers : \E q \in Receivers \ {r} :
        /\ rctx[r].status = "run"
        /\ rctx[r].shared_key = NoKey
        /\ rctx[q].status # "run"
        /\ rctx[q].shared_key # NoKey
        /\ wire[r] # <<>>
        /\ IsBinary(Head(wire[r]))
        /\ Kind(Head(wire[r])) \in {"List", "Chunk"}
        /\ KeyOf(Head(wire[r])) = rctx[q].shared_key

(***************************************************************************)
(* C36: the receiver's clean completion                                    *)
(***************************************************************************)
\* C36: a receiver ends with Status::Exit ("Transfer has completed.") only
\* if it has received a List and every listed file is written completely; a
\* leave that arrives before any List does not end it with Exit
C36_Completed ==
    \A r \in Receivers :
        rctx[r].status = "exit" =>
            /\ rctx[r].files # <<>>
            /\ ~Incomplete(r)

\* what does hold: at Exit no listed file is below 100
C36_NoneBelow == \A r \in Receivers : rctx[r].status = "exit" => ~Incomplete(r)

\* a receiver that joined and got leave before any handshake or List: it has
\* ended with Exit, holds no key, has no file listed and wrote nothing
C36_NothingReceived ==
    \E r \in Receivers :
        /\ rctx[r].status = "exit"
        /\ rctx[r].shared_key = NoKey
        /\ rctx[r].files = <<>>
        /\ DOMAIN disk[r] = {}

(***************************************************************************)
(* C37: the advertisement of a transfer that was not completed             *)
(***************************************************************************)
\* start_receiver has sent POST /download_success
Posted(r) == launch[r].pc = "done"

\* C37: the receiver deletes the advertisement only of a transfer it
\* completed: when both dials failed, or the receive protocol ended with an
\* error, no POST /download_success is sent and the advertisement stays in
\* the registry. (A receiver whose LAN dial connected ran its session on the
\* sender's embedded relay, of which nothing is known here.)
C37_OnlyCompleted ==
    (Posted(Launched) /\ launch[Launched].lan # "connected")
        => /\ launch[Launched].relay = "connected"
           /\ rctx[Launched].status = "exit"
           /\ Written(Launched)

\* the LAN dial timed out, the relay dial failed too, no session ever ran:
\* the POST was sent and answered 200, the advertisement is gone
C37_BothFailed ==
    /\ Posted(Launched)
    /\ launch[Launched].lan = "timeout"
    /\ launch[Launched].relay \notin {"none", "connected"}
    /\ rctx[Launched].status = "init"
    /\ http.op = "download_success" /\ http.status = OK
    /\ FindTransfer(transfers, TransferName) = -1

\* the session over the relay ended with an error: the POST was sent all the same
C37_AfterError ==
    /\ Posted(Launched)
    /\ launch[Launched].relay = "connected"
    /\ rctx[Launched].status = "err"
    /\ http.op = "download_success" /\ http.status = OK
    /\ FindTransfer(transfers, TransferName) = -1

(***************************************************************************)
(* C38: after the end of a connection                                      *)
(***************************************************************************)
\* the relay handles the end of connection c: a close frame, or the end of
\* its stream (a read error breaks the read loop as the end of stream does)
EndsConnection(c) == Handles(c) /\ Head(inq[c]) \in {CloseFrame, Eof}

\* the step that handles the end takes c out of its room: the member list
\* loses c's entry alone, so the place is free for the next join, and a room
\* that is left without members is removed
C38_Step ==
    \A c \in Conns :
        EndsConnection(c) =>
            /\ ~InAnyRoom(c)'
            /\ \A id \in DOMAIN rooms :
                  IF c \in Range(rooms[id].senders)
                  THEN IF rooms[id].senders = <<c>>
                       THEN id \notin DOMAIN rooms'
                       ELSE /\ id \in DOMAIN rooms'
                            /\ rooms'[id].senders =
                                  Remove(rooms[id].senders, Position(rooms[id].senders, c))
                            /\ ~RoomIsFull(rooms'[id])
                  ELSE id \in DOMAIN rooms' /\ rooms'[id] = rooms[id]

\* from then on: a connection whose end was handled is a member of no room,
\* and no room is kept whose members have all gone
C38_Gone ==
    /\ \A c \in Conns : conn[c] = "gone" => ~InAnyRoom(c)
    /\ \A id \in DOMAIN rooms : \E m \in Range(rooms[id].senders) : conn[m] # "gone"

\* C38: once the relay has finished handling the end of a connection (close
\* frame, read error or end of stream), that connection is a member of no
\* room, its place can be taken by a new join, and a room whose members have
\* all disconnected is no longer in the registry
C38_Closed == []C38_Gone /\ [][C38_Step]_vars

\* the place of a member whose connection ended has been taken: the creator
\* was told that the member at index 1 left, and its room holds, at index 1,
\* a connection that joined after the other one had gone
C38_Witness ==
    \E c \in Conns \ {Creator} : \E d \in Conns \ {Creator, c} :
        /\ conn[c] = "gone"
        /\ client_room_id[c] = NoRoom
        /\ \E k \in 1..Len(wire[Creator]) : wire[Creator][k] = RespLeave(1)
        /\ SenderRoom \in DOMAIN rooms
        /\ rooms[SenderRoom].senders = <<Creator, d>>
        /\ handled = [conn |-> d, message |-> ReqJoin(SenderRoom)]

\* the only member's connection ended: the room is gone
C38_WitnessRemoved ==
    /\ conn[Creator] = "gone"
    /\ handled = [conn |-> Creator, message |-> Eof]
    /\ SenderRoom \notin DOMAIN rooms

(***************************************************************************)
(* C39: no frame back to its source                                        *)
(***************************************************************************)
\* the relay handles a binary frame of connection c
ForwardsFrame(c) == Handles(c) /\ IsBinary(Head(inq[c]))

\* C39: the relay never delivers a binary frame to the connection that sent
\* it: unicast or broadcast (255), the sends queued for a frame of c exclude
\* c, also when the address byte is c's own index in the room
C39_NotToSource ==
    [][\A c \in Conns :
         ForwardsFrame(c) => \A p \in pending'[c] : p.to # c]_vars

\* what does hold: a broadcast is never queued for its source
C39_Broadcast ==
    [][\A c \in Conns :
         (ForwardsFrame(c) /\ Head(inq[c]).data # <<>> /\ Head(inq[c]).data[1] = BROADCAST)
            => \A p \in pending'[c] : p.to # c]_vars

\* a member sent a frame whose address byte is its own index: the frame, with
\* the byte unchanged, is the last message on its own socket
C39_Echo ==
    \E c \in Conns : \E id \in DOMAIN rooms :
        /\ handled.conn = c
        /\ IsBinary(handled.message)
        /\ handled.message.data # <<>>
        /\ Position(rooms[id].senders, c) = handled.message.data[1]
        /\ pending[c] = {}
        /\ wire[c] # <<>>
        /\ wire[c][Len(wire[c])] = handled.message

(***************************************************************************)
(* C40: a path that ends without completing the transfer                   *)
(***************************************************************************)
\* start_sender with the path over the relay fed by a peer that holds the
\* invite but follows no protocol, so that its session can end with an error
NextPaths ==
    \/ start_sender \/ connect_to_server \/ LocalPump \/ Signal \/ start_sender_return
    \/ RelayPath \/ SenderFeed \/ SenderRecv \/ PumpChunk \/ PumpNext \/ PumpOrphan

SpecPaths == Init /\ [][NextPaths]_vars

\* C40, a dial that fails: connect_to_server of the local path logs the error
\* and returns without a signal; the other path and start_sender go on
C40_Dial ==
    [][(boot.local_start = "none" /\ boot'.local_start = "refused")
          => /\ boot'.rx = boot.rx
             /\ boot'.pc = boot.pc
             /\ boot'.relay_thread = boot.relay_thread
             /\ sctx' = sctx]_vars

\* C40, a session that ends: when start_sender has returned and it was not
\* the local path whose sender::start returned, the path over the relay has
\* completed the transfer
C40_Session ==
    (boot.pc = "returned" /\ boot.local_start # "returned") => sctx.status = "exit"

\* C40: a path that ends without completing the transfer, because its dial
\* fails or its session ends with an error, does not cancel the other path,
\* which keeps running and can still complete; start_sender returns only
\* after a path has completed the transfer
C40_OtherPathKept == C40_Dial /\ []C40_Session

\* the session over the relay ended with an error while the session of the
\* local path was running: start_sender returned and the local path is aborted
C40_Cancelled ==
    /\ boot.pc = "returned"
    /\ sctx.status = "err"
    /\ boot.relay_thread = "finished"
    /\ boot.local_thread = "aborted"
    /\ boot.local_start = "aborted"

\* the dial of the local path failed and the path over the relay then
\* completed the transfer
C40_RelayAfterRefusal ==
    /\ boot.pc = "returned"
    /\ boot.local_start = "refused"
    /\ sctx.status = "exit"

====
